---- MODULE Spec2Model ----
(***************************************************************************)
(* FlowPlayground gateway: the request-to-result pipeline of the image and *)
(* video routes, the upstream (fal.ai) client, the result cache, the batch *)
(* route, job-status polling and the storage sweep.                        *)
(*                                                                         *)
(* Python strings are sequences of one-character strings, so that          *)
(* formatting, concatenation, comparison and sorting are computed as the   *)
(* code computes them.                                                     *)
(***************************************************************************)
EXTENDS Integers, Sequences, FiniteSets, TLC

VARIABLES
    ckIn,       \* generate_cache_key: the arguments of the call
    ckOut,      \* generate_cache_key: the returned key (NoKey before the call)
    req,        \* per request slot: position in the route handler and its locals
    cache,      \* the Redis store: key -> stored JSON value
    evicted,    \* keys whose entry Redis has expired (TTL) at least once
    upCalls,    \* log of the upstream HTTP calls issued by the requests
    jobs,       \* per job id: the last two statuses observed through polling
    batch,      \* the batch route: handler position, files, tasks, response
    files,      \* upload root: path -> [age, locked]
    sweep,      \* cleanup_old_files: position, remaining walk, deleted_count
    central,    \* the central exception handler: environment, exception, response
    auth,       \* get_api_key: the key store, and per request the credential
                \* presented and the verdict
    del,        \* delete_file: the layer called, the file named, and per call
                \* its result and the upload root after it
    task,       \* periodic_cleanup: position in the loop, how the last
                \* cycle ended, whether cancel() was called
    client,     \* FalAIService: the session referenced, every session created with
                \* whether it is closed, and the log of _get_session / close calls
    life,       \* lifespan: position in the shutdown sequence
    san,        \* sanitize_filename: the argument and the result (NoName before the call)
    saves       \* uploads being stored: per upload the generated filename and position,
                \* the files on disk with the upload each holds, and the clock

\* the state of the server process outside the routes
serverVars == <<central, auth, del, task, client, life, san, saves>>

vars ==
    <<ckIn, ckOut, req, cache, evicted, upCalls, jobs, batch, files, sweep,
      serverVars>>

(***************************************************************************)
(* Python strings                                                          *)
(***************************************************************************)

\* The characters the model uses, in code-point order (str comparison in
\* Python is lexicographic by code point).
AsciiOrder ==
    << "'", ".", "0", "1", "2", "3", "4", "5", "6", "7", "8", "9", ":",
       "F", "N", "T", "_",
       "a", "b", "c", "d", "e", "f", "g", "h", "i", "j", "k", "l", "m",
       "n", "o", "p", "q", "r", "s", "t", "u", "v", "w", "x", "y", "z" >>

Ord(c) == CHOOSE i \in 1..Len(AsciiOrder) : AsciiOrder[i] = c

RECURSIVE StrLess(_, _)
\* a < b for two Python strings
StrLess(a, b) ==
    IF b = << >> THEN FALSE
    ELSE IF a = << >> THEN TRUE
    ELSE IF Head(a) = Head(b) THEN StrLess(Tail(a), Tail(b))
    ELSE Ord(Head(a)) < Ord(Head(b))

RECURSIVE Join(_, _)
\* sep.join(parts)
Join(sep, parts) ==
    IF parts = << >> THEN << >>
    ELSE IF Len(parts) = 1 THEN parts[1]
    ELSE parts[1] \o sep \o Join(sep, Tail(parts))

\* Python values that occur as request parameters
PyNone == [t |-> "none"]
PyBool(b) == [t |-> "bool", v |-> b]
PyText(s) == [t |-> "str", v |-> s]
PyNum(digits) == [t |-> "num", v |-> digits]   \* an int or float, by its repr

\* str(v), as the f-string "{v}" formats a value
Format(v) ==
    CASE v.t = "none" -> <<"N", "o", "n", "e">>
      [] v.t = "bool" -> IF v.v THEN <<"T", "r", "u", "e">>
                                ELSE <<"F", "a", "l", "s", "e">>
      [] v.t = "str"  -> v.v
      [] v.t = "num"  -> v.v

(***************************************************************************)
(* Cache key                                                               *)
(***************************************************************************)

\* A dict is the sequence of its (key, value) items in insertion order; keys
\* are distinct.
DictKeys(d) == {d[i][1] : i \in DOMAIN d}
DictGet(d, k) == LET i == CHOOSE j \in DOMAIN d : d[j][1] = k IN d[i][2]
IsDict(d) == \A i, j \in DOMAIN d : d[i][1] = d[j][1] => i = j
SameMapping(d, e) ==
    /\ DictKeys(d) = DictKeys(e)
    /\ \A k \in DictKeys(d) : DictGet(d, k) = DictGet(e, k)

RECURSIVE InsertSorted(_, _)
InsertSorted(item, s) ==
    IF s = << >> THEN <<item>>
    ELSE IF StrLess(item[1], Head(s)[1]) THEN <<item>> \o s
    ELSE <<Head(s)>> \o InsertSorted(item, Tail(s))

RECURSIVE SortedFrom(_, _)
SortedFrom(items, acc) ==
    IF items = << >> THEN acc
    ELSE SortedFrom(Tail(items), InsertSorted(Head(items), acc))

\* params.items() without the sort: a key built in insertion order
UnsortedItems(items) == items

\* sorted(params.items()): the keys of a dict are distinct, so the order is
\* the order of the keys alone
SortedItems(items) == SortedFrom(items, << >>)

\* f"{k}:{v}"
ParamPart(item) == item[1] \o <<":">> \o Format(item[2])

KeyPrefixImage ==
    <<"f","l","o","w","p","l","a","y","g","r","o","u","n","d",":">>
KeyPrefixVideo == KeyPrefixImage \o <<"v","i","d","e","o",":">>

\* generate_cache_key(operation, params, file_hash) up to the module prefix
CacheKeyBody(operation, params, file_hash) ==
    LET sorted_params == SortedItems(params)
        param_str == Join(<<"_">>,
                          [i \in DOMAIN sorted_params |->
                              ParamPart(sorted_params[i])])
        key_parts == <<operation>>
                     \o (IF file_hash # PyNone /\ file_hash.v # << >>
                         THEN <<file_hash.v>> ELSE << >>)
                     \o <<param_str>>
    IN Join(<<":">>, key_parts)

\* image.py generate_cache_key
generate_cache_key(operation, params, file_hash) ==
    KeyPrefixImage \o CacheKeyBody(operation, params, file_hash)

\* video.py generate_cache_key
generate_cache_key_video(operation, params, file_hash) ==
    KeyPrefixVideo \o CacheKeyBody(operation, params, file_hash)

(***************************************************************************)
(* generate_cache_key as a function: one call, inputs drawn in Init        *)
(***************************************************************************)

MaxHashes == 1      \* distinct input content hashes
MaxParams == 2      \* entries of a parameter dict

NoKey == <<"?">>

Digit == <<"1", "2", "3", "4", "5", "6", "7", "8", "9">>

KeyOps == { <<"e","n","h","a","n","c","e">>, <<"g","e","n","e","r","a","t","e">> }
KeyHashes == {PyNone} \cup {PyText(<<"d", Digit[i]>>) : i \in 1..MaxHashes}
KeyNames == { <<"p">>, <<"q">>, <<"r">> }
KeyValues ==
    { PyNone, PyText(<<"N","o","n","e">>), PyText(<< >>),
      PyText(<<"_","q",":">>), PyText(<<"a">>) }

RECURSIVE DictsUpTo(_)
\* every dict of at most n entries over KeyNames and KeyValues, in every
\* insertion order
DictsUpTo(n) ==
    IF n = 0 THEN { << >> }
    ELSE LET S == DictsUpTo(n - 1)
         IN S \cup { Append(d, <<k, v>>) :
                       d \in {e \in S : Len(e) = n - 1},
                       k \in KeyNames, v \in KeyValues }

KeyDicts == {d \in DictsUpTo(MaxParams) : IsDict(d)}

KeyInputs ==
    [module : {"image", "video"}, operation : KeyOps,
     params : KeyDicts, file_hash : KeyHashes]

KeyOf(in) ==
    IF in.module = "image"
    THEN generate_cache_key(in.operation, in.params, in.file_hash)
    ELSE generate_cache_key_video(in.operation, in.params, in.file_hash)

KeyInit == ckIn \in KeyInputs /\ ckOut = NoKey
KeyIdle == ckIn = [module |-> "image", operation |-> << >>,
                   params |-> << >>, file_hash |-> PyNone] /\ ckOut = NoKey

\* image.py: a call of generate_cache_key
CallImageKey ==
    /\ ckOut = NoKey /\ ckIn.module = "image"
    /\ ckOut' = generate_cache_key(ckIn.operation, ckIn.params, ckIn.file_hash)
    /\ UNCHANGED <<ckIn, req, cache, evicted, upCalls, jobs, batch, files, sweep,
                 serverVars>>

\* video.py: a call of generate_cache_key
CallVideoKey ==
    /\ ckOut = NoKey /\ ckIn.module = "video"
    /\ ckOut' = generate_cache_key_video(ckIn.operation, ckIn.params,
                                         ckIn.file_hash)
    /\ UNCHANGED <<ckIn, req, cache, evicted, upCalls, jobs, batch, files, sweep,
                 serverVars>>

\* every insertion order of the items of d
Orderings(d) ==
    {e \in [DOMAIN d -> {d[i] : i \in DOMAIN d}] : SameMapping(e, d)}

\* the same (operation, parameters, input hash) triple
SameTriple(a, b) ==
    /\ a.module = b.module
    /\ a.operation = b.operation
    /\ a.file_hash = b.file_hash
    /\ SameMapping(a.params, b.params)

\* C9: the key returned for a parameter dict is the key of every dict that
\* holds the same key/value pairs in another insertion order.
C9_KeyOrderInvariant ==
    ckOut # NoKey =>
        \A e \in Orderings(ckIn.params) :
            KeyOf([ckIn EXCEPT !.params = e]) = ckOut

\* C9 witness: a key was computed for a dict of two or more entries whose
\* insertion order is not the sorted one.
C9_Witness ==
    /\ ckOut # NoKey
    /\ Len(ckIn.params) >= 2
    /\ SortedItems(ckIn.params) # ckIn.params

\* C10 (as claimed): no other (operation, parameters, input hash) triple has
\* the key returned for this one.
C10_KeyUnique ==
    ckOut # NoKey =>
        \A other \in KeyInputs :
            ~SameTriple(other, ckIn) => KeyOf(other) # ckOut

(***************************************************************************)
(* Exceptions and the HTTP boundary                                        *)
(*                                                                         *)
(* A message is a sequence of text pieces; an f-string concatenates them.  *)
(***************************************************************************)

NoVal == [t |-> "none"]     \* Python None
Some(x) == [t |-> "some", v |-> x]

\* fal_ai.py FalAIError(message, status_code, error_code)
FalAIError(message, status_code, error_code) ==
    [exc |-> "FalAIError", message |-> message,
     status_code |-> status_code, error_code |-> error_code]

\* fastapi HTTPException(status_code, detail)
HTTPException(status_code, detail) ==
    [exc |-> "HTTPException", message |-> detail,
     status_code |-> status_code, error_code |-> "-"]

\* any other exception class, with the text str(e) gives
PyException(class, text) ==
    [exc |-> class, message |-> text, status_code |-> 0, error_code |-> "-"]

\* str(e): an HTTPException prints as "<status_code>: <detail>", any other
\* exception as its message
StrOfException(e) ==
    IF e.exc = "HTTPException"
    THEN <<ToString(e.status_code), ": ">> \o e.message
    ELSE e.message

\* fal_ai.py FalAIService._map_error_code
MapErrorCode(status_code) ==
    IF status_code = 400 THEN "validation_error"
    ELSE IF status_code = 401 THEN "authentication_error"
    ELSE IF status_code = 429 THEN "rate_limit_exceeded"
    ELSE IF status_code = 413 THEN "file_too_large"
    ELSE "external_api_error"

\* main.py http_exception_handler: the error envelope for an HTTPException
HttpExceptionHandler(e) ==
    LET error_code ==
            IF e.status_code = 400 THEN "validation_error"
            ELSE IF e.status_code = 401 THEN "authentication_error"
            ELSE IF e.status_code = 413 THEN "file_too_large"
            ELSE IF e.status_code = 415 THEN "unsupported_format"
            ELSE IF e.status_code = 429 THEN "rate_limit_exceeded"
            ELSE "internal_error"
    IN [success |-> FALSE, status_code |-> e.status_code,
        error_code |-> error_code, message |-> e.message,
        url |-> NoVal, job_status |-> "-"]

\* a 200 response of a route
SuccessResponse(message, url, job_status) ==
    [success |-> TRUE, status_code |-> 200, error_code |-> "-",
     message |-> message, url |-> url, job_status |-> job_status]

(***************************************************************************)
(* Upstream client (fal_ai.py)                                             *)
(***************************************************************************)

\* What the network and the provider do with one HTTP call.
ConnError == [net |-> "conn_error", status |-> 0, body |-> NoVal]
TimedOut == [net |-> "timeout", status |-> 0, body |-> NoVal]
Response(status, body) == [net |-> "response", status |-> status, body |-> body]

\* Response bodies: a JSON object (a field is Some(value), or NoVal when
\* absent), a JSON value that is not an object, or a body that is not JSON.
JsonObject(message, url, status) ==
    [json |-> "object", message |-> message, url |-> url, status |-> status]
JsonArray == [json |-> "array", message |-> NoVal, url |-> NoVal, status |-> NoVal]
NotJson == [json |-> "not_json", message |-> NoVal, url |-> NoVal, status |-> NoVal]

Returned(value) == [r |-> "return", value |-> value]
Raised(e) == [r |-> "raise", value |-> e]

\* FalAIService._make_request: the body is decoded before the status is
\* looked at; response.json() raises ContentTypeError (an aiohttp.ClientError)
\* for a body that is not JSON, and response_data.get raises AttributeError
\* for a JSON value that is not an object.
MakeRequest(outcome) ==
    IF outcome.net = "conn_error"
    THEN Raised(FalAIError(<<"Connection error: ", "connect failed">>,
                           503, "external_api_error"))
    ELSE IF outcome.net = "timeout"
    THEN Raised(FalAIError(<<"Request timed out">>, 504, "external_api_error"))
    ELSE IF outcome.body.json = "not_json"
    THEN Raised(FalAIError(<<"Connection error: ", "unexpected mimetype">>,
                           503, "external_api_error"))
    ELSE IF outcome.status >= 400
    THEN IF outcome.body.json = "object"
         THEN Raised(FalAIError(
                  IF outcome.body.message # NoVal THEN outcome.body.message.v
                  ELSE <<"HTTP ", ToString(outcome.status)>>,
                  outcome.status, MapErrorCode(outcome.status)))
         ELSE Raised(PyException("AttributeError",
                  <<"'list' object has no attribute 'get'">>))
    ELSE Returned(outcome.body)

\* a caller served without any HTTP call
AttemptsNone(mk) == 0

\* a client that repeats a failed HTTP call once
AttemptsWithRetry(mk) == IF mk.r = "raise" THEN 2 ELSE 1

\* the HTTP calls one invocation of _make_request issues: one
\* session.request, whatever its result
Attempts(mk) == 1

\* the failure text of each operation method
ServiceFailure(method) ==
    CASE method = "enhance_image"  -> <<"Image enhancement failed">>
      [] method = "style_transfer" -> <<"Style transfer failed">>
      [] method = "generate_image" -> <<"Image generation failed">>
      [] method = "process_video"  -> <<"Video processing failed">>
      [] method = "get_job_status" -> <<"Failed to get job status">>

\* a status mapping that lets a status it does not know pass as failed
MapJobStatusStrict(fal_status) ==
    IF fal_status = NoVal THEN "failed"
    ELSE CASE fal_status.v = "queued"    -> "pending"
           [] fal_status.v = "running"   -> "processing"
           [] fal_status.v = "completed" -> "completed"
           [] fal_status.v = "failed"    -> "failed"
           [] fal_status.v = "cancelled" -> "cancelled"
           [] OTHER                      -> "failed"

\* _map_job_status
MapJobStatus(fal_status) ==
    IF fal_status = NoVal THEN "pending"
    ELSE CASE fal_status.v = "queued"    -> "pending"
           [] fal_status.v = "running"   -> "processing"
           [] fal_status.v = "completed" -> "completed"
           [] fal_status.v = "failed"    -> "failed"
           [] fal_status.v = "cancelled" -> "cancelled"
           [] OTHER                      -> "pending"

\* an operation method that turns every failure of _make_request into its own
\* 500 processing_error
ServiceCallWrapAll(method, job_id, mk) ==
    IF mk.r = "raise" \/ mk.value.json # "object"
    THEN Raised(FalAIError(ServiceFailure(method), 500, "processing_error"))
    ELSE Returned([job_id |-> job_id, status |-> "completed",
                   result_url |-> mk.value.url,
                   metadata |-> [model_used |-> method]])

\* enhance_image / style_transfer / generate_image / process_video /
\* get_job_status, given what _make_request did: a FalAIError is re-raised,
\* any other exception (also one raised while reading the response) becomes
\* FalAIError(500, processing_error).
ServiceCall(method, job_id, mk) ==
    IF mk.r = "raise"
    THEN IF mk.value.exc = "FalAIError" THEN mk
         ELSE Raised(FalAIError(ServiceFailure(method), 500, "processing_error"))
    ELSE IF mk.value.json # "object"
    THEN Raised(FalAIError(ServiceFailure(method), 500, "processing_error"))
    ELSE IF method = "get_job_status"
    THEN Returned([job_id |-> job_id,
                   status |-> MapJobStatus(mk.value.status),
                   result_url |-> mk.value.url,
                   metadata |-> [model_used |-> method]])
    ELSE Returned([job_id |-> job_id, status |-> "completed",
                   result_url |-> mk.value.url,
                   metadata |-> [model_used |-> method]])

(***************************************************************************)
(* Storage layer (media_processor.py, file_handler.py)                     *)
(***************************************************************************)

max_file_size == 52428800
allowed_image_types == {"image/jpeg", "image/png", "image/webp"}
allowed_video_types == {"video/mp4", "video/avi", "video/mov"}

\* Upload contents the model draws from: len(content) and md5(content)
Contents == {"A", "B", "V", "X"}
ContentLen(c) ==
    CASE c = "A" -> 1024
      [] c = "B" -> max_file_size
      [] c = "V" -> 2048
      [] c = "X" -> max_file_size + 1
      [] c = "C" -> 512
Md5(c) ==
    CASE c = "A" -> PyText(<<"d", "1">>)
      [] c = "B" -> PyText(<<"d", "2">>)
      [] c = "V" -> PyText(<<"d", "3">>)
      [] c = "X" -> PyText(<<"d", "4">>)
      [] c = "C" -> PyText(<<"d", "5">>)

\* whether PIL can open the bytes as an image; "C" is a damaged image
Decodable(c) == c # "C"

Upload(filename, content_type, content) ==
    [filename |-> filename, content_type |-> content_type, content |-> content]
NoUpload == Upload("-", "-", "-")

\* a validate_file without the size check
validate_file_any_size(content, content_type, filename) ==
    LET is_image == content_type \in allowed_image_types
        is_video == content_type \in allowed_video_types
    IN IF ~(is_image \/ is_video)
       THEN Raised(PyException("ValueError",
                <<"Unsupported file type. Allowed types: ", "[...]">>))
       ELSE Returned([is_image |-> is_image, is_video |-> is_video,
                      file_hash |-> Md5(content),
                      file_size |-> ContentLen(content),
                      content_type |-> content_type,
                      filename |-> filename])

\* a validate_file that refuses content of exactly max_file_size bytes
validate_file_below_limit(content, content_type, filename) ==
    IF ContentLen(content) >= max_file_size
    THEN Raised(PyException("ValueError",
             <<"File size exceeds maximum limit of ", ToString(max_file_size),
               " bytes">>))
    ELSE validate_file_any_size(content, content_type, filename)

\* MediaProcessor.validate_file
validate_file(content, content_type, filename) ==
    IF ContentLen(content) > max_file_size
    THEN Raised(PyException("ValueError",
             <<"File size exceeds maximum limit of ", ToString(max_file_size),
               " bytes">>))
    ELSE LET is_image == content_type \in allowed_image_types
             is_video == content_type \in allowed_video_types
         IN IF ~(is_image \/ is_video)
            THEN Raised(PyException("ValueError",
                     <<"Unsupported file type. Allowed types: ", "[...]">>))
            ELSE Returned([is_image |-> is_image, is_video |-> is_video,
                           file_hash |-> Md5(content),
                           file_size |-> ContentLen(content),
                           content_type |-> content_type,
                           filename |-> filename])

\* MediaProcessor.generate_unique_filename: the sanitized name with a
\* timestamp and a random suffix, both drawn by the caller
UniqueFilename(original_filename, suffix) == <<original_filename, suffix>>

\* MediaProcessor.create_thumbnail: the thumbnail's filename, or the
\* exception of PIL logged and raised again
create_thumbnail(content, unique_filename) ==
    IF Decodable(content) THEN Returned(unique_filename)
    ELSE Raised(PyException("UnidentifiedImageError",
                            <<"cannot identify image file">>))

\* a caller that lets the exception of create_thumbnail pass
ThumbnailOrRaise(created) ==
    IF created.r = "raise" THEN created ELSE Returned(Some(created.value))

\* validate_and_save_upload around create_thumbnail: thumbnail_filename
\* stays None when create_thumbnail raises (the warning is logged)
ThumbnailOrNone(created) ==
    IF created.r = "raise" THEN Returned(NoVal)
    ELSE Returned(Some(created.value))

\* FileHandler.validate_and_save_upload, its result: the file data, or the
\* HTTPException it raises for a ValueError of validate_file or for any
\* other exception
ValidateAndSaveUpload(upload, suffix) ==
    LET v == validate_file(upload.content, upload.content_type, upload.filename)
    IN IF v.r = "raise"
       THEN Raised(HTTPException(400, StrOfException(v.value)))
       ELSE LET unique_filename == UniqueFilename(upload.filename, suffix)
                subdir == IF v.value.is_image THEN "images" ELSE "videos"
                thumbnail_filename ==
                    IF v.value.is_image
                    THEN ThumbnailOrNone(
                             create_thumbnail(upload.content, unique_filename))
                    ELSE Returned(NoVal)
            IN IF thumbnail_filename.r = "raise"
               THEN Raised(HTTPException(500,
                               <<"Failed to process file upload">>))
               ELSE Returned([filename |-> unique_filename, subdir |-> subdir,
                              file_info |-> v.value,
                              thumbnail_filename |-> thumbnail_filename.value,
                              thumbnail_url |->
                                  IF thumbnail_filename.value # NoVal
                                  THEN Some(<<"thumbnails", unique_filename>>)
                                  ELSE NoVal])

\* the files validate_and_save_upload writes: the upload, and the thumbnail
\* when one was created
FilesWritten(fd) ==
    { <<fd.subdir, fd.filename>> }
    \cup (IF fd.thumbnail_filename # NoVal
          THEN { <<"thumbnails", fd.filename>> } ELSE {})

(***************************************************************************)
(* Routes (image.py, video.py)                                             *)
(***************************************************************************)

\* the field names of the request models, as text
FieldName ==
    [ strength |->
          <<"s","t","r","e","n","g","t","h">>,
      preserve_details |->
          <<"p","r","e","s","e","r","v","e","_","d","e","t","a","i","l","s">>,
      enhance_colors |->
          <<"e","n","h","a","n","c","e","_","c","o","l","o","r","s">>,
      reduce_noise |->
          <<"r","e","d","u","c","e","_","n","o","i","s","e">>,
      style_strength |->
          <<"s","t","y","l","e","_","s","t","r","e","n","g","t","h">>,
      preserve_structure |->
          <<"p","r","e","s","e","r","v","e","_","s","t","r","u","c","t","u","r","e">>,
      style_reference |->
          <<"s","t","y","l","e","_","r","e","f","e","r","e","n","c","e">>,
      prompt |->
          <<"p","r","o","m","p","t">>,
      negative_prompt |->
          <<"n","e","g","a","t","i","v","e","_","p","r","o","m","p","t">>,
      width |->
          <<"w","i","d","t","h">>,
      height |->
          <<"h","e","i","g","h","t">>,
      num_inference_steps |->
          <<"n","u","m","_","i","n","f","e","r","e","n","c","e","_","s","t","e","p","s">>,
      guidance_scale |->
          <<"g","u","i","d","a","n","c","e","_","s","c","a","l","e">>,
      seed |->
          <<"s","e","e","d">>,
      operation |->
          <<"o","p","e","r","a","t","i","o","n">>,
      quality |->
          <<"q","u","a","l","i","t","y">>,
      fps |->
          <<"f","p","s">>,
      resolution |->
          <<"r","e","s","o","l","u","t","i","o","n">> ]

\* the operation names the routes pass to generate_cache_key, as text
OpName ==
    [ enhance |->
          <<"e","n","h","a","n","c","e">>,
      style_transfer |->
          <<"s","t","y","l","e","_","t","r","a","n","s","f","e","r">>,
      generate |->
          <<"g","e","n","e","r","a","t","e">>,
      stabilize |->
          <<"s","t","a","b","i","l","i","z","e">>,
      video_prefix |->
          <<"v","i","d","e","o","_">> ]

\* request.dict() of each request model, fields in declaration order
EnhanceDict(strength) ==
    << <<FieldName.strength, PyNum(strength)>>, <<FieldName.preserve_details, PyBool(TRUE)>>,
       <<FieldName.enhance_colors, PyBool(TRUE)>>, <<FieldName.reduce_noise, PyBool(TRUE)>> >>
StyleDict ==
    << <<FieldName.style_strength, PyNum(<<"0", ".", "8">>)>>,
       <<FieldName.preserve_structure, PyBool(TRUE)>>,
       <<FieldName.style_reference, PyNone>> >>
GenerateDict(negative_prompt) ==
    << <<FieldName.prompt, PyText(<<"c", "a", "t">>)>>,
       <<FieldName.negative_prompt, negative_prompt>>,
       <<FieldName.width, PyNum(<<"5", "1", "2">>)>>,
       <<FieldName.height, PyNum(<<"5", "1", "2">>)>>,
       <<FieldName.num_inference_steps, PyNum(<<"2", "0">>)>>,
       <<FieldName.guidance_scale, PyNum(<<"7", ".", "5">>)>>,
       <<FieldName.seed, PyNone>> >>
\* the operation member is formatted as its value
VideoDict(operation) ==
    << <<FieldName.operation, PyText(operation)>>,
       <<FieldName.quality, PyText(<<"h", "i", "g", "h">>)>>,
       <<FieldName.fps, PyNone>>, <<FieldName.resolution, PyNone>> >>

ImageRoutes == {"image_enhance", "image_style_transfer"}
VideoWrapperRoutes == {"video_enhance", "video_stabilize", "video_style_transfer"}
VideoRoutes == {"video_process"} \cup VideoWrapperRoutes
FileRoutes == ImageRoutes \cup VideoRoutes
AllRoutes == FileRoutes \cup {"image_generate"}

\* the request bodies the model draws for a route
ParamsOf(route) ==
    CASE route = "image_enhance" ->
             { EnhanceDict(<<"0", ".", "8">>), EnhanceDict(<<"0", ".", "5">>) }
      [] route = "image_style_transfer" -> { StyleDict }
      [] route = "image_generate" ->
             { GenerateDict(PyNone), GenerateDict(PyText(<<"N","o","n","e">>)) }
      [] route = "video_process" -> { VideoDict(OpName.enhance) }
      [] route = "video_enhance" -> { VideoDict(OpName.enhance) }
      [] route = "video_stabilize" -> { VideoDict(OpName.stabilize) }
      [] route = "video_style_transfer" -> { VideoDict(OpName.style_transfer) }

\* the upstream client method a route calls
MethodOf(route) ==
    CASE route = "image_enhance" -> "enhance_image"
      [] route = "image_style_transfer" -> "style_transfer"
      [] route = "image_generate" -> "generate_image"
      [] route \in VideoRoutes -> "process_video"

\* the cache key a route derives
RouteCacheKey(route, params, file_hash) ==
    CASE route = "image_enhance" ->
             generate_cache_key(OpName.enhance, params, file_hash)
      [] route = "image_style_transfer" ->
             generate_cache_key(OpName.style_transfer, params, file_hash)
      [] route = "image_generate" ->
             generate_cache_key(OpName.generate, params, PyNone)
      [] route \in VideoRoutes ->
             generate_cache_key_video(
                 OpName.video_prefix \o DictGet(params, FieldName.operation).v, params, file_hash)

\* the field of the cached dict a route reads the result URL from
CachedUrlField(route) ==
    IF route \in VideoRoutes THEN "video_url" ELSE "image_url"

SuccessText(route) ==
    CASE route = "image_enhance" -> <<"Image enhanced successfully">>
      [] route = "image_style_transfer" -> <<"Style transfer applied successfully">>
      [] route = "image_generate" -> <<"Image generated successfully">>
      [] route \in VideoRoutes -> <<"Video processed successfully">>

FailureText(route) ==
    CASE route = "image_enhance" -> <<"Image enhancement failed: ">>
      [] route = "image_style_transfer" -> <<"Style transfer failed: ">>
      [] route = "image_generate" -> <<"Image generation failed: ">>
      [] route \in VideoRoutes -> <<"Video processing failed: ">>

WrapperFailureText(route) ==
    CASE route = "video_enhance" -> <<"Video enhancement failed: ">>
      [] route = "video_stabilize" -> <<"Video stabilization failed: ">>
      [] route = "video_style_transfer" -> <<"Video style transfer failed: ">>

WrongKindText(route) ==
    CASE route = "image_enhance" ->
             <<"Only image files are supported for enhancement">>
      [] route = "image_style_transfer" ->
             <<"Only image files are supported for style transfer">>
      [] route \in VideoRoutes ->
             <<"Only video files are supported for video processing">>

\* the except clauses of enhance_image, style_transfer and process_video
HandlerExcept(route, e) ==
    IF e.exc = "FalAIError" THEN HTTPException(e.status_code, e.message)
    ELSE IF e.exc = "HTTPException" /\ route # "image_generate" THEN e
    ELSE HTTPException(500, FailureText(route) \o StrOfException(e))

\* the exception that leaves the route for an exception e raised in its
\* body: enhance_video, stabilize_video and video_style_transfer call
\* process_video inside their own try / except Exception
RouteExcept(route, e) ==
    IF route \in VideoWrapperRoutes
    THEN HTTPException(500, WrapperFailureText(route)
                            \o StrOfException(HandlerExcept(route, e)))
    ELSE HandlerExcept(route, e)

\* what the caller receives when e is raised in the body of the route
ErrorResponse(route, e) == HttpExceptionHandler(RouteExcept(route, e))

(***************************************************************************)
(* The single-file and generate routes, one await point per action         *)
(***************************************************************************)

redis_expire_time == 3600

Slots == {"r1", "r2"}

ReqIdle ==
    [pc |-> "idle", route |-> "-", upload |-> NoUpload, params |-> << >>,
     file_data |-> NoVal, key |-> NoKey, hit |-> FALSE, fault |-> FALSE,
     outcome |-> NoVal, mk |-> NoVal, svc |-> NoVal, err |-> NoVal,
     resp |-> NoVal, after |-> {}]

UpImgA == Upload("a.png", "image/png", "A")
UpImgB == Upload("b.png", "image/png", "B")
UpVid == Upload("v.mp4", "video/mp4", "V")
UpBig == Upload("x.png", "image/png", "X")
UpTxt == Upload("t.txt", "text/plain", "A")
UpBad == Upload("c.png", "image/png", "C")

ResultUrl == "https://fal.media/result"

\* the request fails in the body of its route with exception e
Fail(r, e) ==
    [req[r] EXCEPT !.pc = "done", !.err = e,
                   !.resp = ErrorResponse(req[r].route, e)]

PipelineInit ==
    /\ req = [r \in Slots |-> ReqIdle]
    /\ cache = << >>
    /\ evicted = {}
    /\ upCalls = [r \in Slots |-> 0]

\* A request arrives: route, body and upload are the caller's. `after` is the
\* set of requests that had been answered when this one arrived.
Begin(r, routes, uploads) ==
    /\ req[r].pc = "idle"
    /\ \E route \in routes :
       \E params \in ParamsOf(route) :
       \E upload \in (IF route \in FileRoutes THEN uploads ELSE {NoUpload}) :
          req' = [req EXCEPT ![r] =
                    [ReqIdle EXCEPT !.pc = "start", !.route = route,
                                    !.params = params, !.upload = upload,
                                    !.after = {q \in Slots : req[q].pc = "done"}]]
    /\ UNCHANGED <<ckIn, ckOut, cache, evicted, upCalls, jobs, batch, files, sweep,
                 serverVars>>

\* await file_handler.validate_and_save_upload(file), then the media-kind
\* check of the route
Validate(r) ==
    /\ req[r].pc = "start"
    /\ req[r].route \in FileRoutes
    /\ LET vs == ValidateAndSaveUpload(req[r].upload, r)
           kind_ok == IF req[r].route \in ImageRoutes
                      THEN vs.value.file_info.is_image
                      ELSE vs.value.file_info.is_video
       IN IF vs.r = "raise"
          THEN /\ req' = [req EXCEPT ![r] = Fail(r, vs.value)]
               /\ files' = files
          ELSE /\ files' = [f \in DOMAIN files \cup FilesWritten(vs.value) |->
                               IF f \in FilesWritten(vs.value)
                               THEN [age |-> 0] ELSE files[f]]
               /\ req' = [req EXCEPT ![r] =
                    IF kind_ok
                    THEN [req[r] EXCEPT !.pc = "validated",
                                        !.file_data = vs.value]
                    ELSE Fail(r, HTTPException(400, WrongKindText(req[r].route)))]
    /\ UNCHANGED <<ckIn, ckOut, cache, evicted, upCalls, jobs, batch, sweep,
                 serverVars>>

\* json.loads(json.dumps(result, default=str)): the dict cache_result stores
CachedValue(result) ==
    [job_id |-> result.job_id, status |-> result.status,
     result_url |-> result.result_url, metadata |-> result.metadata]

\* What can go wrong with one read of the cache: redis_client.get raises
\* (the store is unavailable), or the bytes it returns are not JSON and
\* json.loads raises.
CacheFaults == {"none", "unavailable", "undecodable"}

\* a read that hands the stored value to the route whatever went wrong
GetCachedResultUnguarded(key, cache_fault) ==
    IF key \notin DOMAIN cache THEN NoVal ELSE cache[key].data

\* get_cached_result: a miss when Redis holds nothing for the key, and a miss
\* when the read or the decoding raises (except Exception: pass)
GetCachedResult(key, cache_fault) ==
    IF cache_fault # "none" \/ key \notin DOMAIN cache THEN NoVal
    ELSE cache[key].data

\* a route that never takes the cached branch
TruthyNever(cached_result) == FALSE

\* `if cached_result:` -- None is false, a stored result dict is true
Truthy(cached_result) == cached_result # NoVal

\* generate_cache_key, await get_cached_result(cache_key) and, on a hit, the
\* response built from the cached dict
Lookup(r) ==
    /\ \/ req[r].pc = "validated"
       \/ req[r].pc = "start" /\ req[r].route = "image_generate"
    /\ \E cache_fault \in CacheFaults :
         LET route == req[r].route
             file_hash == IF route \in FileRoutes
                          THEN req[r].file_data.file_info.file_hash
                          ELSE PyNone
             cache_key == RouteCacheKey(route, req[r].params, file_hash)
             cached_result == GetCachedResult(cache_key, cache_fault)
             looked == [req[r] EXCEPT !.key = cache_key,
                                      !.fault = cache_fault # "none"]
         IN req' = [req EXCEPT ![r] =
              IF ~Truthy(cached_result)
              THEN [looked EXCEPT !.pc = "miss"]
              ELSE IF CachedUrlField(route) \notin DOMAIN cached_result
              THEN [looked EXCEPT
                       !.pc = "done", !.hit = TRUE,
                       !.err = PyException("KeyError",
                                   <<"'", CachedUrlField(route), "'">>),
                       !.resp = ErrorResponse(route,
                                   PyException("KeyError",
                                       <<"'", CachedUrlField(route), "'">>))]
              ELSE [looked EXCEPT
                       !.pc = "done", !.hit = TRUE,
                       !.resp = SuccessResponse(
                                   SuccessText(route) \o <<" (cached)">>,
                                   cached_result[CachedUrlField(route)],
                                   "-")]]
    /\ UNCHANGED <<ckIn, ckOut, cache, evicted, upCalls, jobs, batch, files, sweep,
                 serverVars>>

\* await file_handler.get_file_content (file routes), then the await of the
\* upstream client method; outcome is what the network and provider do
CallUpstream(r, outcomes) ==
    /\ req[r].pc = "miss"
    /\ LET route == req[r].route
           stored == route \in FileRoutes =>
                        <<req[r].file_data.subdir, req[r].file_data.filename>>
                            \in DOMAIN files
       IN IF ~stored
          THEN /\ req' = [req EXCEPT ![r] =
                            Fail(r, HTTPException(404, <<"File not found">>))]
               /\ upCalls' = upCalls
          ELSE \E outcome \in outcomes :
                 LET mk == MakeRequest(outcome)
                     svc == ServiceCall(MethodOf(route), r, mk)
                     called == [req[r] EXCEPT !.outcome = outcome,
                                              !.mk = mk, !.svc = svc]
                 IN /\ upCalls' = [upCalls EXCEPT ![r] = @ + Attempts(mk)]
                    /\ req' = [req EXCEPT ![r] =
                         IF svc.r = "raise"
                         THEN [called EXCEPT
                                 !.pc = "done", !.err = svc.value,
                                 !.resp = ErrorResponse(route, svc.value)]
                         ELSE [called EXCEPT !.pc = "called"]]
    /\ UNCHANGED <<ckIn, ckOut, cache, evicted, jobs, batch, files, sweep,
                 serverVars>>

\* a write that keeps the entry a key already has
SetIfAbsent(store, key, entry) ==
    [k \in DOMAIN store \cup {key} |->
        IF k \in DOMAIN store THEN store[k] ELSE entry]

\* a write that skips a result without a URL
SetexIfUrl(store, key, entry) ==
    IF entry.data.result_url = NoVal THEN store
    ELSE [k \in DOMAIN store \cup {key} |-> IF k = key THEN entry ELSE store[k]]

\* redis_client.setex(cache_key, expire_time, value): the key holds the new
\* value, whatever it held before
Setex(store, key, entry) ==
    [k \in DOMAIN store \cup {key} |-> IF k = key THEN entry ELSE store[k]]

\* await cache_result(cache_key, result) and the response built from the
\* result; ImageResponse / VideoResponse require a URL string
Store(r) ==
    /\ req[r].pc = "called"
    /\ \E redis_fails \in BOOLEAN :
         LET route == req[r].route
             result == req[r].svc.value
             entry == [data |-> CachedValue(result), ex |-> redis_expire_time]
             invalid == PyException("ValidationError",
                            <<CachedUrlField(route), ": ",
                              "Input should be a valid string">>)
         IN /\ cache' = IF redis_fails THEN cache
                        ELSE Setex(cache, req[r].key, entry)
            /\ req' = [req EXCEPT ![r] =
                 IF result.result_url = NoVal
                 THEN [req[r] EXCEPT
                         !.pc = "done", !.err = invalid,
                         !.fault = @ \/ redis_fails,
                         !.resp = ErrorResponse(route, invalid)]
                 ELSE [req[r] EXCEPT
                         !.pc = "done",
                         !.fault = @ \/ redis_fails,
                         !.resp = SuccessResponse(SuccessText(route),
                                      result.result_url, "-")]]
    /\ UNCHANGED <<ckIn, ckOut, evicted, upCalls, jobs, batch, files, sweep,
                 serverVars>>

\* Redis drops an entry whose TTL has run out
Expire ==
    /\ \E k \in DOMAIN cache :
         /\ cache' = [j \in DOMAIN cache \ {k} |-> cache[j]]
         /\ evicted' = evicted \cup {k}
    /\ UNCHANGED <<ckIn, ckOut, req, upCalls, jobs, batch, files, sweep,
                 serverVars>>

(***************************************************************************)
(* Job-status route: GET /job/{job_id} (image.py, video.py)                *)
(***************************************************************************)

JobIds == {"j1", "j2"}
TerminalStatuses == {"completed", "failed", "cancelled"}

\* the status vocabulary of the provider, one word outside it, and a reply
\* without the field
ProviderStatuses ==
    {Some(st) : st \in {"queued", "running", "completed", "failed",
                        "cancelled", "archived"}} \cup {NoVal}
JobOutcomes ==
    { ConnError,
      Response(404, JsonObject(Some(<<"Job not found">>), NoVal, NoVal)) }
    \cup { Response(200, JsonObject(NoVal, u, st)) :
             u \in {NoVal, Some(ResultUrl)}, st \in ProviderStatuses }

\* per job: the statuses the last two answered polls reported ("-": none
\* yet), and the last response
JobsInit ==
    jobs = [j \in JobIds |->
              [prev |-> "-", last |-> "-", resp |-> NoVal, outcome |-> NoVal]]
JobsIdle == JobsInit

\* the except clauses of get_job_status / get_video_job_status
JobRouteExcept(e) ==
    IF e.exc = "FalAIError" THEN HTTPException(e.status_code, e.message)
    ELSE HTTPException(500, <<"Failed to get job status: ">> \o StrOfException(e))

\* one poll of the job route: fal_ai_service.get_job_status(job_id), then
\* the JobResponse
Poll(j) ==
    /\ \E outcome \in JobOutcomes :
         LET mk == MakeRequest(outcome)
             result == ServiceCall("get_job_status", j, mk)
         IN jobs' = [jobs EXCEPT ![j] =
              IF result.r = "raise"
              THEN [@ EXCEPT !.outcome = outcome,
                             !.resp =
                       HttpExceptionHandler(JobRouteExcept(result.value))]
              ELSE [prev |-> @.last,
                    last |-> result.value.status,
                    outcome |-> outcome,
                    resp |-> SuccessResponse(
                                <<"Job ", result.value.job_id, " is ",
                                  result.value.status>>,
                                result.value.result_url,
                                result.value.status)]]
    /\ UNCHANGED <<ckIn, ckOut, req, cache, evicted, upCalls, batch, files, sweep,
                 serverVars>>

(***************************************************************************)
(* Batch route: POST /image/batch (image.py)                               *)
(***************************************************************************)

MaxBatch == 3           \* files of a batch the model follows through
BatchLimit == 10        \* files allowed per batch

BatchUploads == {UpImgA, UpBig, UpTxt, UpVid}
BatchOperations == {"enhance", "style_transfer", "upscale"}
BatchOutcomes ==
    { ConnError,
      Response(200, JsonObject(NoVal, Some(ResultUrl), NoVal)),
      Response(429, JsonObject(Some(<<"Too many requests">>), NoVal, NoVal)) }

NoTask == [pc |-> "start", outcome |-> NoVal, calls |-> 0, result |-> NoVal]

BatchInit ==
    batch = [pc |-> "idle", files |-> << >>, operation |-> "-",
             parameters_ok |-> TRUE, tasks |-> << >>, resp |-> NoVal]
BatchIdle == BatchInit

\* the record process_single_file returns for a failure
FailedRecord(file, error) ==
    [file |-> file.filename, status |-> "failed", error |-> error,
     result_url |-> NoVal]

\* the record process_single_file returns for a processed file
CompletedRecord(file, result) ==
    [file |-> file.filename, status |-> "completed", error |-> << >>,
     result_url |-> result.result_url]

\* batch_process up to asyncio.gather: the size check, then one task per
\* file. A batch over the limit is followed with its length alone.
BeginBatch ==
    /\ batch.pc = "idle"
    /\ \E n \in (1..MaxBatch) \cup {BatchLimit + 1} :
       \E fs \in (IF n > MaxBatch THEN {[i \in 1..n |-> UpImgA]}
                  ELSE [1..n -> BatchUploads]) :
       \E operation \in BatchOperations :
       \E parameters_ok \in BOOLEAN :
          batch' =
            IF Len(fs) > BatchLimit
            THEN [batch EXCEPT
                    !.pc = "done", !.files = fs, !.operation = operation,
                    !.parameters_ok = parameters_ok,
                    !.resp = HttpExceptionHandler(HTTPException(400,
                                <<"Maximum 10 files allowed per batch">>))]
            ELSE [batch EXCEPT
                    !.pc = "gather", !.files = fs, !.operation = operation,
                    !.parameters_ok = parameters_ok,
                    !.tasks = [i \in 1..n |-> NoTask]]
    /\ UNCHANGED <<ckIn, ckOut, req, cache, evicted, upCalls, jobs, files, sweep,
                 serverVars>>

\* process_single_file up to its first await: validate_and_save_upload and
\* the image check; an exception is caught and recorded by its str()
TaskValidate(i) ==
    /\ batch.pc = "gather"
    /\ i \in DOMAIN batch.tasks
    /\ batch.tasks[i].pc = "start"
    /\ LET file == batch.files[i]
           vs == ValidateAndSaveUpload(file, ToString(i))
       IN IF vs.r = "raise"
          THEN /\ batch' = [batch EXCEPT !.tasks[i] =
                    [@ EXCEPT !.pc = "done",
                              !.result = FailedRecord(file,
                                             StrOfException(vs.value))]]
               /\ files' = files
          ELSE /\ files' = [f \in DOMAIN files \cup FilesWritten(vs.value) |->
                               IF f \in FilesWritten(vs.value)
                               THEN [age |-> 0] ELSE files[f]]
               /\ batch' = [batch EXCEPT !.tasks[i] =
                    IF vs.value.file_info.is_image
                    THEN [@ EXCEPT !.pc = "validated"]
                    ELSE [@ EXCEPT !.pc = "done",
                                   !.result = FailedRecord(file,
                                       <<"Only image files are supported">>)]]
    /\ UNCHANGED <<ckIn, ckOut, req, cache, evicted, upCalls, jobs, sweep,
                 serverVars>>

\* process_single_file from get_file_content on: the request model built
\* from the batch parameters, the upstream call, the record
TaskProcess(i) ==
    /\ batch.pc = "gather"
    /\ i \in DOMAIN batch.tasks
    /\ batch.tasks[i].pc = "validated"
    /\ LET file == batch.files[i]
           method == IF batch.operation = "enhance" THEN "enhance_image"
                     ELSE "style_transfer"
       IN IF batch.operation \notin {"enhance", "style_transfer"}
          THEN batch' = [batch EXCEPT !.tasks[i] =
                  [@ EXCEPT !.pc = "done",
                            !.result = FailedRecord(file,
                                <<"Unsupported operation: ", batch.operation>>)]]
          ELSE IF ~batch.parameters_ok
          THEN batch' = [batch EXCEPT !.tasks[i] =
                  [@ EXCEPT !.pc = "done",
                            !.result = FailedRecord(file,
                                <<"validation error for ", method>>)]]
          ELSE \E outcome \in BatchOutcomes :
                 LET mk == MakeRequest(outcome)
                     result == ServiceCall(method, i, mk)
                 IN batch' = [batch EXCEPT !.tasks[i] =
                      [pc |-> "done", outcome |-> outcome,
                       calls |-> @.calls + Attempts(mk),
                       result |-> IF result.r = "raise"
                                  THEN FailedRecord(file,
                                           StrOfException(result.value))
                                  ELSE CompletedRecord(file, result.value)]]
    /\ UNCHANGED <<ckIn, ckOut, req, cache, evicted, upCalls, jobs, files, sweep,
                 serverVars>>

\* a tally that counts a record only when it is completed
TallyCompletedOnly(results) ==
    [completed_items |->
        Cardinality({i \in DOMAIN results : results[i].status = "completed"}),
     failed_items |-> 0]

\* the loop of batch_process over the gathered results
Tally(results) ==
    [completed_items |->
        Cardinality({i \in DOMAIN results : results[i].status = "completed"}),
     failed_items |->
        Cardinality({i \in DOMAIN results : results[i].status # "completed"})]

\* batch_process after asyncio.gather(*tasks, return_exceptions=True): every
\* task has finished; the BatchResponse
Gather ==
    /\ batch.pc = "gather"
    /\ \A i \in DOMAIN batch.tasks : batch.tasks[i].pc = "done"
    /\ LET results == [i \in DOMAIN batch.tasks |-> batch.tasks[i].result]
           tally == Tally(results)
       IN batch' = [batch EXCEPT
            !.pc = "done",
            !.resp = [success |-> TRUE, status_code |-> 200,
                      total_items |-> Len(batch.files),
                      completed_items |-> tally.completed_items,
                      failed_items |-> tally.failed_items,
                      results |-> results]]
    /\ UNCHANGED <<ckIn, ckOut, req, cache, evicted, upCalls, jobs, files, sweep,
                 serverVars>>

(***************************************************************************)
(* Sweep: MediaProcessor.cleanup_old_files                                 *)
(***************************************************************************)

MaxAgeHours == 1        \* largest max_age_hours the model passes
SecondsPerHour == 3600

SweepPaths == { <<"", "f0">>, <<"images", "f1">>, <<"thumbnails", "f2">> }

\* ages in seconds around the threshold of max_age_hours, and a fresh file
AgesAround(max_age_hours) ==
    {0} \cup {max_age_hours * SecondsPerHour + d : d \in -1..1}

\* age_hours >= max_age_hours
IsOldInclusive(age, max_age_hours) == age >= max_age_hours * SecondsPerHour

\* age_hours > max_age_hours, with age_hours = age / 3600
IsOld(age, max_age_hours) == age > max_age_hours * SecondsPerHour

SweepIdle ==
    sweep = [pc |-> "idle", max_age_hours |-> 0, todo |-> {},
             deleted_count |-> 0, before |-> << >>, failed |-> {}]

\* the upload root when a sweep is called
SweepInit ==
    /\ \E max_age_hours \in 0..MaxAgeHours :
       \E present \in SUBSET SweepPaths :
          /\ files \in [present -> [age : AgesAround(max_age_hours)]]
          /\ sweep = [pc |-> "call", max_age_hours |-> max_age_hours,
                      todo |-> {}, deleted_count |-> 0,
                      before |-> << >>, failed |-> {}]

\* cleanup_old_files(max_age_hours) starts: os.walk lists the files.
\* `before` keeps the upload root as it was, `failed` the files whose
\* removal raised.
SweepStart ==
    /\ sweep.pc = "call"
    /\ sweep' = [sweep EXCEPT !.pc = "walk", !.todo = DOMAIN files,
                              !.before = files]
    /\ UNCHANGED <<ckIn, ckOut, req, cache, evicted, upCalls, jobs, batch, files,
                 serverVars>>

\* one iteration of the loop over the walked files: the age test, os.remove
\* (which may raise; the exception is logged) and the count
SweepFile ==
    /\ sweep.pc = "walk"
    /\ \E f \in sweep.todo :
       \E remove_fails \in BOOLEAN :
          IF IsOld(files[f].age, sweep.max_age_hours)
          THEN IF remove_fails
               THEN /\ sweep' = [sweep EXCEPT !.todo = @ \ {f},
                                              !.failed = @ \cup {f}]
                    /\ files' = files
               ELSE /\ sweep' = [sweep EXCEPT !.todo = @ \ {f},
                                              !.deleted_count = @ + 1]
                    /\ files' = [g \in DOMAIN files \ {f} |-> files[g]]
          ELSE /\ ~remove_fails
               /\ sweep' = [sweep EXCEPT !.todo = @ \ {f}]
               /\ files' = files
    /\ UNCHANGED <<ckIn, ckOut, req, cache, evicted, upCalls, jobs, batch,
                 serverVars>>

\* the walk is over: return deleted_count
SweepReturn ==
    /\ sweep.pc = "walk"
    /\ sweep.todo = {}
    /\ sweep' = [sweep EXCEPT !.pc = "returned"]
    /\ UNCHANGED <<ckIn, ckOut, req, cache, evicted, upCalls, jobs, batch, files,
                 serverVars>>

FilesEmpty == files = << >>

(***************************************************************************)
(* The central exception handler (main.py)                                 *)
(***************************************************************************)

\* config.py Environment
Environments == {"development", "staging", "production"}

\* the exceptions the model raises past the routes, with the text of str(exc)
UnhandledExceptions ==
    { PyException(class, <<text>>) :
        class \in {"RuntimeError", "KeyError", "OSError", "TypeError"},
        text \in {"", "'image_url'", "redis://:hunter2@cache:6379 refused",
                  "[Errno 28] No space left on device"} }

GenericText == <<"Internal server error">>

CentralIdle ==
    central = [environment |-> "development", exc |-> NoVal, resp |-> NoVal,
               served |-> 0]

\* the process starts with the environment its settings name
CentralInit ==
    \E e \in Environments :
        central = [environment |-> e, exc |-> NoVal, resp |-> NoVal,
                   served |-> 0]

\* main.py general_exception_handler: the generic text when
\* settings.is_production, str(exc) otherwise
GeneralExceptionHandler(environment, exc) ==
    [success |-> FALSE, status_code |-> 500, error_code |-> "internal_error",
     message |-> IF environment = "production" THEN GenericText
                 ELSE StrOfException(exc),
     url |-> NoVal, job_status |-> "-"]

MaxServed == 3      \* unhandled exceptions the model follows in one process

\* an exception leaves a route or a middleware unhandled and is rendered
Unhandled ==
    /\ central.served < MaxServed
    /\ \E exc \in UnhandledExceptions :
         central' = [central EXCEPT
                       !.exc = exc,
                       !.resp = GeneralExceptionHandler(central.environment, exc),
                       !.served = @ + 1]
    /\ UNCHANGED <<ckIn, ckOut, req, cache, evicted, upCalls, jobs, batch,
                   files, sweep, auth, del, task, client, life, san, saves>>

(***************************************************************************)
(* Authentication: the get_api_key dependency of every route (security.py) *)
(***************************************************************************)

\* the keys a store may hold, and the credentials a caller may present:
\* none, a key the store may hold, or a key no store holds
ApiKeys == {"dev-api-key", "k2"}
Credentials == {NoVal} \cup {Some(k) : k \in ApiKeys \cup {"guess"}}

AuthIdle ==
    auth = [keys |-> {"dev-api-key"},
            req |-> [r \in Slots |->
                       [pc |-> "idle", credentials |-> NoVal, resp |-> NoVal]]]

\* a process with any store of active keys (a process outside development
\* starts with none)
AuthInit ==
    \E keys \in SUBSET ApiKeys :
        auth = [keys |-> keys,
                req |-> [r \in Slots |->
                           [pc |-> "idle", credentials |-> NoVal,
                            resp |-> NoVal]]]

\* APIKeyAuth.verify_api_key; every key of the store is active
verify_api_key(keys, api_key) == api_key \in keys

\* a get_api_key that only asks for a credential to be present
get_api_key_any(keys, credentials) ==
    IF credentials = NoVal
    THEN Raised(HTTPException(401, <<"API key required">>))
    ELSE Returned(credentials.v)

\* get_api_key
get_api_key(keys, credentials) ==
    IF credentials = NoVal
    THEN Raised(HTTPException(401, <<"API key required">>))
    ELSE IF ~verify_api_key(keys, credentials.v)
    THEN Raised(HTTPException(401, <<"Invalid API key">>))
    ELSE Returned(credentials.v)

\* the dependency is resolved before the route function is called: the
\* request of slot r arrives with its credential
Authenticate(r) ==
    /\ auth.req[r].pc = "idle"
    /\ \E credentials \in Credentials :
         LET k == get_api_key(auth.keys, credentials)
         IN auth' = [auth EXCEPT !.req[r] =
              IF k.r = "raise"
              THEN [pc |-> "rejected", credentials |-> credentials,
                    resp |-> HttpExceptionHandler(k.value)]
              ELSE [pc |-> "passed", credentials |-> credentials,
                    resp |-> NoVal]]
    /\ UNCHANGED <<ckIn, ckOut, req, cache, evicted, upCalls, jobs, batch,
                   files, sweep, central, del, task, client, life, san,
                   saves>>

(***************************************************************************)
(* delete_file (media_processor.py, file_handler.py)                       *)
(***************************************************************************)

MaxDeletes == 2     \* successive delete_file calls on one name

DeleteLayers == {"media_processor", "file_handler"}

DelIdle ==
    del = [layer |-> "media_processor", path |-> <<"", "f0">>,
           before |-> << >>, calls |-> << >>]

\* any upload root, any name, either layer
DelInit ==
    \E present \in SUBSET SweepPaths :
    \E path \in SweepPaths :
    \E layer \in DeleteLayers :
        /\ files \in [present -> [age : {0}]]
        /\ del = [layer |-> layer, path |-> path, before |-> files,
                  calls |-> << >>]

\* MediaProcessor.delete_file: True when the file existed and os.remove
\* returned; False when it is absent, and False when os.remove raised
MediaDeleteFile(path, remove_fails) ==
    IF path \in DOMAIN files /\ ~remove_fails
    THEN Returned(TRUE) ELSE Returned(FALSE)

\* FileHandler.delete_file: the result of the storage layer, and
\* HTTPException(404) when that result is False
HandlerDeleteFile(path, remove_fails) ==
    LET success == MediaDeleteFile(path, remove_fails)
    IN IF ~success.value
       THEN Raised(HTTPException(404, <<"File not found">>))
       ELSE success

\* one call of delete_file(filename, subdir) on the layer under test
DeleteCall ==
    /\ Len(del.calls) < MaxDeletes
    /\ \E remove_fails \in BOOLEAN :
         LET result == IF del.layer = "file_handler"
                       THEN HandlerDeleteFile(del.path, remove_fails)
                       ELSE MediaDeleteFile(del.path, remove_fails)
             removed == del.path \in DOMAIN files /\ ~remove_fails
         IN /\ remove_fails => del.path \in DOMAIN files
            /\ files' = IF removed
                         THEN [f \in DOMAIN files \ {del.path} |-> files[f]]
                         ELSE files
            /\ del' = [del EXCEPT !.calls =
                          Append(@, [result |-> result, fault |-> remove_fails,
                                     after |-> files'])]
    /\ UNCHANGED <<ckIn, ckOut, req, cache, evicted, upCalls, jobs, batch,
                   sweep, central, auth, task, client, life, san, saves>>

(***************************************************************************)
(* The background sweep: periodic_cleanup (main.py)                        *)
(***************************************************************************)

CleanupAgeHours == 24       \* cleanup_temp_files(24)

TaskIdle == task = [pc |-> "sleeping", last |-> "-", cancelled |-> FALSE]

\* the upload root when the task is created, with files around the age the
\* task passes
CleanupInit ==
    /\ TaskIdle
    /\ \E present \in SUBSET SweepPaths :
          files \in [present -> [age : AgesAround(CleanupAgeHours)]]
    /\ sweep = [pc |-> "idle", max_age_hours |-> 0, todo |-> {},
                deleted_count |-> 0, before |-> << >>, failed |-> {}]

\* a loop that leaves on any exception
OnExceptionBreak(class) == "ended"

\* the except clauses of the loop: CancelledError breaks, any other
\* Exception is logged and the loop goes on
OnException(class) ==
    IF class = "CancelledError" THEN "ended" ELSE "sleeping"

\* await asyncio.sleep(3600) returns; cleanup_temp_files(24) is called
Wake ==
    /\ task.pc = "sleeping"
    /\ ~task.cancelled
    /\ task' = [task EXCEPT !.pc = "sweeping"]
    /\ sweep' = [pc |-> "call", max_age_hours |-> CleanupAgeHours,
                 todo |-> {}, deleted_count |-> 0, before |-> << >>,
                 failed |-> {}]
    /\ UNCHANGED <<ckIn, ckOut, req, cache, evicted, upCalls, jobs, batch,
                   files, central, auth, del, client, life, san, saves>>

\* cleanup_temp_files returned the count: the cycle is over
CycleDone ==
    /\ task.pc = "sweeping"
    /\ sweep.pc = "returned"
    /\ task' = [task EXCEPT !.pc = "sleeping", !.last = "ok"]
    /\ UNCHANGED <<ckIn, ckOut, req, cache, evicted, upCalls, jobs, batch,
                   files, sweep, central, auth, del, client, life, san,
                   saves>>

\* an exception is raised inside the cycle (the import, the sweep, the log
\* call) and reaches `except Exception`
CycleError ==
    /\ task.pc = "sweeping"
    /\ \E class \in {"ImportError", "OSError"} :
         task' = [task EXCEPT !.pc = OnException(class), !.last = "error"]
    /\ UNCHANGED <<ckIn, ckOut, req, cache, evicted, upCalls, jobs, batch,
                   files, sweep, central, auth, del, client, life, san,
                   saves>>

\* lifespan shutdown: cleanup_task.cancel() asks for the cancellation. The
\* sweep has no await, so lifespan never runs in the middle of a cycle.
Cancel ==
    /\ life.pc = "serving"
    /\ task.pc # "sweeping"
    /\ task' = [task EXCEPT !.cancelled = TRUE]
    /\ life' = [life EXCEPT !.pc = "cancel"]
    /\ UNCHANGED <<ckIn, ckOut, req, cache, evicted, upCalls, jobs, batch,
                   files, sweep, central, auth, del, client, san, saves>>

\* the event loop resumes the task while lifespan is suspended or over:
\* CancelledError is raised at the await of the sleep
Deliver ==
    /\ life.pc \in {"closing", "complete"}
    /\ task.cancelled
    /\ task.pc = "sleeping"
    /\ task' = [task EXCEPT !.pc = OnException("CancelledError")]
    /\ UNCHANGED <<ckIn, ckOut, req, cache, evicted, upCalls, jobs, batch,
                   files, sweep, central, auth, del, client, life, san,
                   saves>>

(***************************************************************************)
(* The upstream session: FalAIService._get_session / close (fal_ai.py)     *)
(***************************************************************************)

MaxCalls == 6

\* __init__: self.session = None. Sessions are numbered in the order they
\* are created; 0 stands for None.
ClientIdle == client = [session |-> 0, closed |-> << >>, calls |-> << >>]

\* the sessions created so far whose .closed is False
OpenSessions(c) == {k \in DOMAIN c.closed : ~c.closed[k]}

\* a _get_session that creates a session only when there is none
get_session_if_none(c) ==
    IF c.session = 0
    THEN [c EXCEPT !.closed = Append(@, FALSE), !.session = Len(c.closed) + 1]
    ELSE c

\* _get_session: a new ClientSession when self.session is None or closed,
\* the current one otherwise; the result is self.session
get_session(c) ==
    IF c.session = 0 \/ c.closed[c.session]
    THEN [c EXCEPT !.closed = Append(@, FALSE), !.session = Len(c.closed) + 1]
    ELSE c

\* a close without the test: None has no close()
close_unguarded(c) ==
    IF c.session = 0
    THEN [r |-> "raise", client |-> c]
    ELSE [r |-> "return", client |-> [c EXCEPT !.closed[c.session] = TRUE]]

\* close: closes self.session when there is one and it is open
close(c) ==
    IF c.session # 0 /\ ~c.closed[c.session]
    THEN [r |-> "return", client |-> [c EXCEPT !.closed[c.session] = TRUE]]
    ELSE [r |-> "return", client |-> c]

\* one line of the call log: the call, how it ended, and the service after it
CallEntry(op, r, c) ==
    [op |-> op, r |-> r, session |-> c.session, created |-> Len(c.closed),
     open |-> OpenSessions(c)]

Logged(op, r, c) == [c EXCEPT !.calls = Append(@, CallEntry(op, r, c))]

\* a caller (_make_request, lifespan) awaits _get_session()
GetSession ==
    /\ Len(client.calls) < MaxCalls
    /\ client' = Logged("get", "return", get_session(client))
    /\ UNCHANGED <<ckIn, ckOut, req, cache, evicted, upCalls, jobs, batch,
                   files, sweep, central, auth, del, task, life, san, saves>>

\* a caller awaits close()
Close ==
    /\ Len(client.calls) < MaxCalls
    /\ LET res == close(client) IN client' = Logged("close", res.r, res.client)
    /\ UNCHANGED <<ckIn, ckOut, req, cache, evicted, upCalls, jobs, batch,
                   files, sweep, central, auth, del, task, life, san, saves>>

(***************************************************************************)
(* lifespan: startup and shutdown (main.py)                                *)
(***************************************************************************)

\* the application is serving: lifespan is at its yield
LifeIdle == life = [pc |-> "serving"]

\* startup: `await fal_ai_service._get_session()` inside try/except, so the
\* service starts with a session or, when that failed, without one
ClientStarted ==
    \E ok \in BOOLEAN :
       client = IF ok
                THEN Logged("get", "return",
                            get_session([session |-> 0, closed |-> << >>,
                                         calls |-> << >>]))
                ELSE [session |-> 0, closed |-> << >>, calls |-> << >>]

\* shutdown, after cancel(): `await fal_ai_service.close()`. Only closing an
\* open session awaits anything, and whether that await suspends lifespan is
\* the HTTP library's business; without a suspension the "shutdown complete"
\* line follows at once.
ShutdownClose ==
    /\ life.pc = "cancel"
    /\ LET res == close(client) IN
         /\ client' = Logged("close", res.r, res.client)
         /\ \E suspends \in BOOLEAN :
              /\ suspends => OpenSessions(client) # {}
              /\ life' = [life EXCEPT !.pc = IF suspends THEN "closing"
                                            ELSE "complete"]
    /\ UNCHANGED <<ckIn, ckOut, req, cache, evicted, upCalls, jobs, batch,
                   files, sweep, central, auth, del, task, san, saves>>

\* close() returned to lifespan: "shutdown complete" is logged
ShutdownComplete ==
    /\ life.pc = "closing"
    /\ life' = [life EXCEPT !.pc = "complete"]
    /\ UNCHANGED <<ckIn, ckOut, req, cache, evicted, upCalls, jobs, batch,
                   files, sweep, central, auth, del, task, client, san,
                   saves>>

(***************************************************************************)
(* Filenames: sanitize_filename (security.py)                              *)
(***************************************************************************)

MaxNameLen == 4         \* short names: every text up to this length
MaxTailLen == 7         \* long names: a run of "a" followed by a tail
LengthLimit == 255      \* `if len(filename) > 255`
KeptLen == 250          \* `name[:250]`

NoName == <<"<", "n", "o", "n", "e", ">">>

\* str.replace for a one-character pattern
ReplaceChar(s, old, new) ==
    [i \in 1..Len(s) |-> IF s[i] = old THEN new ELSE s[i]]

\* str.replace("..", "_"): occurrences are taken left to right and do not
\* overlap, so a pair starts at a dot that is followed by a dot and preceded
\* by an even number of dots
ReplaceDotDot(s) ==
    LET starts(i) ==
            /\ i >= 1 /\ i < Len(s)
            /\ s[i] = "." /\ s[i + 1] = "."
            /\ LET others == {j \in 1..(i - 1) : s[j] # "."}
                   last == IF others = {} THEN 0
                           ELSE CHOOSE j \in others : \A k \in others : k <= j
               IN (i - 1 - last) % 2 = 0
        marked == [i \in 1..Len(s) |->
                     IF starts(i) THEN "_"
                     ELSE IF starts(i - 1) THEN "" ELSE s[i]]
    IN SelectSeq(marked, LAMBDA c : c # "")

\* the index of the last c in s, 0 when there is none
LastIndex(s, c) ==
    LET at == {i \in 1..Len(s) : s[i] = c}
    IN IF at = {} THEN 0 ELSE CHOOSE i \in at : \A j \in at : j <= i

\* filename.rsplit(".", 1) if "." in filename else (filename, "")
RSplitDot(s) ==
    LET d == LastIndex(s, ".")
    IN IF d = 0 THEN [name |-> s, ext |-> << >>]
       ELSE [name |-> SubSeq(s, 1, d - 1), ext |-> SubSeq(s, d + 1, Len(s))]

\* os.path.splitext: the extension starts at the last dot of the last path
\* component, unless only dots precede it there
splitext(s) ==
    LET sep == LastIndex(s, "/")
        dot == LastIndex(s, ".")
    IN IF dot > sep /\ \E i \in (sep + 1)..(dot - 1) : s[i] # "."
       THEN [name |-> SubSeq(s, 1, dot - 1), ext |-> SubSeq(s, dot, Len(s))]
       ELSE [name |-> s, ext |-> << >>]

\* sanitize_filename
sanitize_filename(filename) ==
    LET a == ReplaceChar(ReplaceChar(filename, "/", "_"), "\\", "_")
        b == ReplaceChar(ReplaceDotDot(a), "~", "_")
    IN IF Len(b) > LengthLimit
       THEN LET p == RSplitDot(b)
            IN SubSeq(p.name, 1, IF Len(p.name) < KeptLen THEN Len(p.name)
                                 ELSE KeptLen)
                 \o (IF p.ext # << >> THEN <<".">> \o p.ext ELSE << >>)
       ELSE b

NameChars == {"a", ".", "/", "\\", "~"}

RECURSIVE TextsUpTo(_, _)
TextsUpTo(chars, n) ==
    IF n = 0 THEN {<< >>}
    ELSE LET shorter == TextsUpTo(chars, n - 1)
         IN shorter \cup {Append(s, c) : s \in shorter, c \in chars}

Fill(n) == [i \in 1..n |-> "a"]

\* the filenames of the requests: short ones with every dangerous character,
\* and long ones around the length limit
ShortNames == TextsUpTo(NameChars, MaxNameLen) \ {<< >>}
LongNames ==
    {Fill(n) \o tail : n \in (KeptLen - 2)..(LengthLimit + 1),
                       tail \in TextsUpTo({"a", "."}, MaxTailLen)}

SanIdle == san = [filename |-> NoName, sanitized |-> NoName, called |-> FALSE]

SanInit ==
    \E filename \in ShortNames \cup LongNames :
       san = [filename |-> filename, sanitized |-> NoName, called |-> FALSE]

Sanitize ==
    /\ ~san.called
    /\ san' = [san EXCEPT !.sanitized = sanitize_filename(san.filename),
                          !.called = TRUE]
    /\ UNCHANGED <<ckIn, ckOut, req, cache, evicted, upCalls, jobs, batch,
                   files, sweep, central, auth, del, task, client, life,
                   saves>>

(***************************************************************************)
(* Storing an upload: generate_unique_filename, save_file                  *)
(* (media_processor.py)                                                    *)
(***************************************************************************)

MaxSeconds == 2         \* the clock runs through this many seconds

Uploaders == {"u1", "u2"}

\* original filenames of the uploads
UploadNames == {<<"a", ".", "a">>, <<"a", "/", "a">>, <<"a", "_", "a">>}

\* str(uuid.uuid4())[:8]: eight hexadecimal digits drawn at random; the model
\* draws from two of the 16^8 values
UniqueIds == {<<"0", "0", "0", "0", "0", "0", "0", "1">>,
              <<"0", "0", "0", "0", "0", "0", "0", "2">>}

\* datetime.now().strftime("%Y%m%d_%H%M%S"): the clock, to the second
Timestamp(second) == <<"t", ToString(second)>>

\* generate_unique_filename, with the time and the random digits it draws
generate_unique_filename(original_filename, timestamp, unique_id) ==
    LET parts == splitext(sanitize_filename(original_filename))
    IN parts.name \o <<"_">> \o timestamp \o <<"_">> \o unique_id \o parts.ext

SavesIdle ==
    saves = [up |-> [u \in Uploaders |->
                       [pc |-> "idle", original |-> NoName,
                        filename |-> NoName]],
             disk |-> << >>, second |-> 1]

\* a second passes
Tick ==
    /\ saves.second < MaxSeconds
    /\ saves' = [saves EXCEPT !.second = @ + 1]
    /\ UNCHANGED <<ckIn, ckOut, req, cache, evicted, upCalls, jobs, batch,
                   files, sweep, central, auth, del, task, client, life, san>>

\* validate_and_save_upload of upload u reaches generate_unique_filename
NameUpload(u) ==
    /\ saves.up[u].pc = "idle"
    /\ \E original \in UploadNames, unique_id \in UniqueIds :
         saves' = [saves EXCEPT !.up[u] =
                     [pc |-> "named", original |-> original,
                      filename |-> generate_unique_filename(
                                       original, Timestamp(saves.second),
                                       unique_id)]]
    /\ UNCHANGED <<ckIn, ckOut, req, cache, evicted, upCalls, jobs, batch,
                   files, sweep, central, auth, del, task, client, life, san>>

\* save_file: aiofiles.open(file_path, 'wb') creates the file or truncates
\* the one that is there, and the content of u is written
SaveFile(u) ==
    /\ saves.up[u].pc = "named"
    /\ LET file_path == saves.up[u].filename
       IN saves' = [saves EXCEPT
                      !.up[u].pc = "saved",
                      !.disk = [f \in DOMAIN saves.disk \cup {file_path} |->
                                  IF f = file_path THEN u ELSE saves.disk[f]]]
    /\ UNCHANGED <<ckIn, ckOut, req, cache, evicted, upCalls, jobs, batch,
                   files, sweep, central, auth, del, task, client, life, san>>

ServerIdle == CentralIdle /\ AuthIdle /\ DelIdle /\ TaskIdle /\ ClientIdle
    /\ LifeIdle /\ SanIdle /\ SavesIdle

(***************************************************************************)
(* Specifications                                                          *)
(***************************************************************************)

MainOutcomes ==
    { ConnError,
      Response(200, JsonObject(NoVal, Some(ResultUrl), NoVal)),
      Response(200, JsonObject(NoVal, NoVal, NoVal)),
      Response(429, JsonObject(Some(<<"Too many requests">>), NoVal, NoVal)) }
MainRoutes == {"image_enhance", "image_style_transfer", "image_generate",
               "video_process"}
MainUploads == {UpImgA, UpImgB, UpVid, UpBig, UpTxt}

\* Two clients, one request each, against one cache.
Init ==
    /\ KeyIdle /\ PipelineInit /\ JobsIdle /\ BatchIdle /\ SweepIdle
    /\ FilesEmpty /\ ServerIdle

Next ==
    \/ \E r \in Slots : Begin(r, MainRoutes, MainUploads)
    \/ \E r \in Slots : Validate(r)
    \/ \E r \in Slots : Lookup(r)
    \/ \E r \in Slots : CallUpstream(r, MainOutcomes)
    \/ \E r \in Slots : Store(r)
    \/ Expire

Spec == Init /\ [][Next]_vars

\* The upstream answers of the error paths: every status class with every
\* kind of body.
ErrStatuses == {200, 400, 401, 413, 415, 429, 500, 502}
ErrBodies ==
    { JsonObject(NoVal, Some(ResultUrl), NoVal),
      JsonObject(Some(<<"upstream says no">>), NoVal, NoVal),
      JsonObject(NoVal, NoVal, NoVal),
      JsonArray, NotJson }
ErrOutcomes ==
    {ConnError, TimedOut}
    \cup {Response(st, b) : st \in ErrStatuses, b \in ErrBodies}
ErrUploads == {UpImgA, UpVid}

\* One request on any route, with any upstream answer.
NextErr ==
    \/ Begin("r1", AllRoutes, ErrUploads)
    \/ Validate("r1")
    \/ Lookup("r1")
    \/ CallUpstream("r1", ErrOutcomes)
    \/ Store("r1")

SpecErr == Init /\ [][NextErr]_vars

\* Polls of the job route, with any provider answer.
NextJobs == \E j \in JobIds : Poll(j)

SpecJobs == Init /\ [][NextJobs]_vars

\* One batch request; its tasks interleave at their await points.
NextBatch ==
    \/ BeginBatch
    \/ \E i \in 1..MaxBatch : TaskValidate(i)
    \/ \E i \in 1..MaxBatch : TaskProcess(i)
    \/ Gather

SpecBatch == Init /\ [][NextBatch]_vars

\* One call of cleanup_old_files on any upload root.
InitSweep ==
    /\ KeyIdle /\ PipelineInit /\ JobsIdle /\ BatchIdle /\ SweepInit
    /\ ServerIdle

NextSweep == SweepStart \/ SweepFile \/ SweepReturn

SpecSweep == InitSweep /\ [][NextSweep]_vars

\* One call of generate_cache_key of either module, on any arguments.
InitKey ==
    /\ KeyInit /\ PipelineInit /\ JobsIdle /\ BatchIdle /\ SweepIdle
    /\ FilesEmpty /\ ServerIdle

NextKey == CallImageKey \/ CallVideoKey

SpecKey == InitKey /\ [][NextKey]_vars

\* One client that sends either one single-file request or one batch.
NextValid ==
    \/ batch.pc = "idle" /\ Begin("r1", FileRoutes, MainUploads)
    \/ Validate("r1")
    \/ Lookup("r1")
    \/ CallUpstream("r1", MainOutcomes)
    \/ Store("r1")
    \/ req["r1"].pc = "idle" /\ BeginBatch
    \/ \E i \in 1..MaxBatch : TaskValidate(i)
    \/ \E i \in 1..MaxBatch : TaskProcess(i)
    \/ Gather

SpecValid == Init /\ [][NextValid]_vars

\* Uploads of every size class with every declared content type: the allowed
\* ones, one that is not allowed, and the default for a missing type.
UploadTypes ==
    allowed_image_types \cup allowed_video_types
    \cup {"text/plain", "application/octet-stream"}
UploadInputs ==
    {Upload(f, ct, c) : f \in {"a.png", "unknown"}, ct \in UploadTypes,
                        c \in Contents}

\* One request on a file route, up to the end of its validation.
NextUpload ==
    \/ Begin("r1", FileRoutes, UploadInputs)
    \/ Validate("r1")

SpecUpload == Init /\ [][NextUpload]_vars

\* One server process in any environment, rendering unhandled exceptions.
InitCentral ==
    /\ KeyIdle /\ PipelineInit /\ JobsIdle /\ BatchIdle /\ SweepIdle
    /\ FilesEmpty /\ CentralInit /\ AuthIdle /\ DelIdle /\ TaskIdle
    /\ ClientIdle /\ LifeIdle /\ SanIdle /\ SavesIdle

NextCentral == Unhandled

SpecCentral == InitCentral /\ [][NextCentral]_vars

\* One request with any credential against any key store; the route function
\* runs only when the dependency returned.
InitAuth ==
    /\ KeyIdle /\ PipelineInit /\ JobsIdle /\ BatchIdle /\ SweepIdle
    /\ FilesEmpty /\ CentralIdle /\ AuthInit /\ DelIdle /\ TaskIdle
    /\ ClientIdle /\ LifeIdle /\ SanIdle /\ SavesIdle

NextAuth ==
    \/ Authenticate("r1")
    \/ auth.req["r1"].pc = "passed" /\ Begin("r1", AllRoutes, ErrUploads)
    \/ Validate("r1")
    \/ Lookup("r1")
    \/ CallUpstream("r1", MainOutcomes)
    \/ Store("r1")

SpecAuth == InitAuth /\ [][NextAuth]_vars

\* Successive delete_file calls on one name, with no other writer.
InitDelete ==
    /\ KeyIdle /\ PipelineInit /\ JobsIdle /\ BatchIdle /\ SweepIdle
    /\ CentralIdle /\ AuthIdle /\ DelInit /\ TaskIdle /\ ClientIdle
    /\ LifeIdle /\ SanIdle /\ SavesIdle

NextDelete == DeleteCall

SpecDelete == InitDelete /\ [][NextDelete]_vars

\* Two clients with one request each, or one batch.
NextOnce ==
    \/ batch.pc = "idle" /\ Next
    \/ (\A r \in Slots : req[r].pc = "idle") /\ NextBatch

SpecOnce == Init /\ [][NextOnce]_vars

\* The background task from its creation through the shutdown of the
\* application. The timer of asyncio.sleep fires, so a sleeping task wakes
\* unless it is cancelled.
InitCleanup ==
    /\ KeyIdle /\ PipelineInit /\ JobsIdle /\ BatchIdle
    /\ CentralIdle /\ AuthIdle /\ DelIdle /\ CleanupInit /\ ClientStarted
    /\ LifeIdle /\ SanIdle /\ SavesIdle

NextCleanup ==
    \/ Wake
    \/ task.pc = "sweeping" /\ (SweepStart \/ SweepFile \/ SweepReturn)
    \/ CycleDone
    \/ CycleError
    \/ Cancel
    \/ ShutdownClose
    \/ ShutdownComplete
    \/ Deliver

SpecCleanup == InitCleanup /\ [][NextCleanup]_vars /\ WF_vars(Wake)

\* Any sequence of _get_session and close calls on one service object.
NextClient == GetSession \/ Close

SpecClient == Init /\ [][NextClient]_vars

\* sanitize_filename applied to one filename.
InitNames ==
    /\ KeyIdle /\ PipelineInit /\ JobsIdle /\ BatchIdle /\ SweepIdle
    /\ FilesEmpty /\ CentralIdle /\ AuthIdle /\ DelIdle /\ TaskIdle
    /\ ClientIdle /\ LifeIdle /\ SanInit /\ SavesIdle

NextNames == Sanitize

SpecNames == InitNames /\ [][NextNames]_vars

\* Two image uploads stored concurrently.
NextSaves ==
    \/ Tick
    \/ \E u \in Uploaders : NameUpload(u)
    \/ \E u \in Uploaders : SaveFile(u)

SpecSaves == Init /\ [][NextSaves]_vars

\* Two clients with one file request each; one of the uploads is an image
\* that cannot be decoded.
ThumbRoutes == {"image_enhance", "image_style_transfer", "video_process"}
ThumbUploads == {UpImgA, UpBad, UpVid}

NextThumb ==
    \/ \E r \in Slots : Begin(r, ThumbRoutes, ThumbUploads)
    \/ \E r \in Slots : Validate(r)
    \/ \E r \in Slots : Lookup(r)
    \/ \E r \in Slots : CallUpstream(r, MainOutcomes)
    \/ \E r \in Slots : Store(r)

SpecThumb == Init /\ [][NextThumb]_vars

\* One single-file image request, answered before one batch arrives.
MixedRoutes == {"image_enhance"}
MixedUploads == {UpImgA}
MixedOutcomes == {Response(200, JsonObject(NoVal, Some(ResultUrl), NoVal))}

NextMixed ==
    \/ batch.pc = "idle" /\ Begin("r1", MixedRoutes, MixedUploads)
    \/ Validate("r1")
    \/ Lookup("r1")
    \/ CallUpstream("r1", MixedOutcomes)
    \/ Store("r1")
    \/ req["r1"].pc = "done" /\ BeginBatch
    \/ \E i \in 1..MaxBatch : TaskValidate(i)
    \/ \E i \in 1..MaxBatch : TaskProcess(i)
    \/ Gather

SpecMixed == Init /\ [][NextMixed]_vars

(***************************************************************************)
(* Claims                                                                  *)
(***************************************************************************)

HasCachedMarker(resp) == \E i \in DOMAIN resp.message : resp.message[i] = " (cached)"

\* b is a repetition of a: it arrived after a was answered, on the same
\* route, with the same file bytes and the same parameters
Repeats(b, a) ==
    /\ a # b
    /\ a \in req[b].after
    /\ req[a].pc = "done" /\ req[b].pc = "done"
    /\ req[b].route = req[a].route
    /\ req[b].upload.content = req[a].upload.content
    /\ req[b].upload.content_type = req[a].upload.content_type
    /\ SameMapping(req[b].params, req[a].params)

\* C1 (as claimed): of two sequential identical image-enhance requests with
\* a working cache and a successful first upstream call, the second returns
\* success with the "(cached)" marker and upstream was invoked exactly once
\* across both.
C1_SecondServedFromCache ==
    \A a, b \in Slots :
        ( /\ Repeats(b, a)
          /\ req[a].route = "image_enhance"
          /\ req[a].resp.success /\ upCalls[a] = 1
          /\ ~req[a].fault /\ ~req[b].fault
          /\ req[a].key \notin evicted )
        => /\ req[b].resp.success
           /\ HasCachedMarker(req[b].resp)
           /\ upCalls[a] + upCalls[b] = 1

\* the client raised a FalAIError into the route of request r
ClientRaised(r) ==
    /\ req[r].pc = "done"
    /\ req[r].err # NoVal
    /\ req[r].err.exc = "FalAIError"

\* C3 (as claimed): on every single-file route a FalAIError(s, m) of the
\* upstream client reaches the boundary with status s and message m, and any
\* other unexpected failure reaches it as status 500.
C3_ErrorReachesBoundary ==
    \A r \in Slots :
        /\ ClientRaised(r) /\ req[r].route \in FileRoutes
             => /\ req[r].resp.status_code = req[r].err.status_code
                /\ req[r].resp.message = req[r].err.message
        /\ ( /\ req[r].pc = "done" /\ req[r].err # NoVal
             /\ req[r].route \in FileRoutes
             /\ req[r].err.exc \notin {"FalAIError", "HTTPException"} )
             => req[r].resp.status_code = 500

\* C4 (as claimed): the error kind the upstream client chose is the
\* error_code of the envelope the caller receives.
C4_ErrorKindUnchanged ==
    \A r \in Slots :
        ClientRaised(r) => req[r].resp.error_code = req[r].err.error_code

\* the error kind the claim names for an upstream status
ClaimedKind(status) ==
    CASE status = 400 -> "validation_error"
      [] status = 401 -> "authentication_error"
      [] status = 413 -> "file_too_large"
      [] status = 429 -> "rate_limit_exceeded"
      [] OTHER -> "external_api_error"

\* C5 (as claimed): for every upstream response of status >= 400, whatever
\* its body, _make_request raises a FalAIError with that status and the
\* mapped kind.
C5_ErrorStatusRaises ==
    \A r \in Slots :
        ( /\ req[r].outcome # NoVal
          /\ req[r].outcome.net = "response"
          /\ req[r].outcome.status >= 400 )
        => /\ req[r].mk.r = "raise"
           /\ req[r].mk.value.exc = "FalAIError"
           /\ req[r].mk.value.status_code = req[r].outcome.status
           /\ req[r].mk.value.error_code = ClaimedKind(req[r].outcome.status)

\* C6: a connection failure makes _make_request raise FalAIError(503,
\* external_api_error), a client-side timeout FalAIError(504,
\* external_api_error), and the operation method raises that same error into
\* the route.
C6_ConnectionAndTimeout ==
    \A r \in Slots :
        ( /\ req[r].outcome # NoVal
          /\ req[r].outcome.net \in {"conn_error", "timeout"} )
        => /\ req[r].mk.r = "raise"
           /\ req[r].mk.value.exc = "FalAIError"
           /\ req[r].mk.value.error_code = "external_api_error"
           /\ req[r].mk.value.status_code =
                 (IF req[r].outcome.net = "conn_error" THEN 503 ELSE 504)
           /\ req[r].svc = req[r].mk
           /\ req[r].err = req[r].mk.value

\* C6 witness: a request whose upstream call timed out has been answered
\* with the error the client raised.
C6_Witness ==
    \E r \in Slots :
        /\ req[r].pc = "done"
        /\ req[r].outcome = TimedOut
        /\ req[r].err.status_code = 504

\* C2 (as claimed): once a poll of a job has reported completed, failed or
\* cancelled, the next answered poll of that job reports the same status,
\* whatever the provider answers.
C2_TerminalStatusStays ==
    \A j \in JobIds :
        jobs[j].prev \in TerminalStatuses => jobs[j].last = jobs[j].prev

\* the validation failure of an upload, as validate_file words it
ValidationText(file) ==
    validate_file(file.content, file.content_type, file.filename).value.message

FailsValidation(file) ==
    \/ ContentLen(file.content) > max_file_size
    \/ file.content_type \notin allowed_image_types \cup allowed_video_types

\* file i of the batch was processed successfully: a valid image, an
\* operation the batch route knows, parameters the request model accepts and
\* an upstream answer below 400 with a JSON object
Processed(i) ==
    /\ ~FailsValidation(batch.files[i])
    /\ batch.files[i].content_type \in allowed_image_types
    /\ batch.operation \in {"enhance", "style_transfer"}
    /\ batch.parameters_ok
    /\ batch.tasks[i].outcome # NoVal
    /\ batch.tasks[i].outcome.net = "response"
    /\ batch.tasks[i].outcome.status < 400
    /\ batch.tasks[i].outcome.body.json = "object"

\* text is a suffix of message
EndsWith(message, text) ==
    /\ Len(message) >= Len(text)
    /\ SubSeq(message, Len(message) - Len(text) + 1, Len(message)) = text

\* C7: a batch of n <= 10 files succeeds as a request with exactly one
\* record per file in order; completed_items counts the files processed
\* successfully, failed_items all others, the two add up to total_items = n,
\* and a file that fails validation is recorded failed with the validation
\* message.
C7_BatchAggregates ==
    ( batch.pc = "done" /\ Len(batch.files) <= BatchLimit ) =>
        LET n == Len(batch.files)
            r == batch.resp
        IN /\ r.success
           /\ DOMAIN r.results = 1..n
           /\ \A i \in 1..n :
                /\ batch.tasks[i].pc = "done"
                /\ r.results[i].file = batch.files[i].filename
                /\ r.results[i].status = "completed" <=> Processed(i)
                /\ r.results[i].status \in {"completed", "failed"}
                /\ FailsValidation(batch.files[i]) =>
                     /\ r.results[i].status = "failed"
                     /\ EndsWith(r.results[i].error,
                                 ValidationText(batch.files[i]))
           /\ r.completed_items = Cardinality({i \in 1..n : Processed(i)})
           /\ r.failed_items = Cardinality({i \in 1..n : ~Processed(i)})
           /\ r.total_items = n
           /\ r.completed_items + r.failed_items = r.total_items

\* C7 witness: a batch of three files has been answered in which one file
\* failed validation, one failed upstream and one was processed.
C7_Witness ==
    /\ batch.pc = "done"
    /\ Len(batch.files) = 3
    /\ \E i, j, k \in 1..3 :
         /\ FailsValidation(batch.files[i])
         /\ batch.tasks[j].outcome = ConnError
         /\ Processed(k)
    /\ batch.resp.completed_items = 1
    /\ batch.resp.failed_items = 2

\* the files of the upload root a finished sweep had to delete
SweepOld ==
    {f \in DOMAIN sweep.before :
        sweep.before[f].age > sweep.max_age_hours * SecondsPerHour}

\* C8: a finished cleanup_old_files(max_age_hours) has deleted exactly the
\* files older than max_age_hours whose removal did not fail, has left every
\* other file as it was, has examined every file, and returns the number of
\* files it deleted.
C8_SweepDeletesOld ==
    sweep.pc = "returned" =>
        /\ DOMAIN files = DOMAIN sweep.before \ (SweepOld \ sweep.failed)
        /\ \A f \in DOMAIN files : files[f] = sweep.before[f]
        /\ sweep.failed \subseteq SweepOld
        /\ sweep.deleted_count = Cardinality(SweepOld \ sweep.failed)
        /\ sweep.deleted_count =
              Cardinality(DOMAIN sweep.before) - Cardinality(DOMAIN files)

\* C8 witness: a finished sweep deleted one file, kept a file whose age is
\* exactly max_age_hours, and kept an older file whose removal failed.
C8_Witness ==
    /\ sweep.pc = "returned"
    /\ sweep.deleted_count = 1
    /\ sweep.failed # {}
    /\ \E f \in DOMAIN files :
         files[f].age = sweep.max_age_hours * SecondsPerHour

\* C11: a request whose cache read failed (store unavailable, or stored bytes
\* that cannot be decoded) was treated as a miss, never as a hit; a request
\* that met a cache fault on the read or on the write and whose upstream call
\* returned a result with a URL is answered with success; and an error
\* answer of a request that met a cache fault is the validation or upstream
\* error, never an error of the cache.
C11_CacheFaultIsMiss ==
    \A r \in Slots :
        /\ req[r].hit => ~req[r].fault
        /\ ( /\ req[r].pc = "done" /\ req[r].fault
             /\ req[r].svc # NoVal /\ req[r].svc.r = "return"
             /\ req[r].svc.value.result_url # NoVal )
             => /\ req[r].resp.success
                /\ req[r].err = NoVal
        /\ ( req[r].pc = "done" /\ req[r].fault /\ req[r].err # NoVal )
             => req[r].err.exc \in {"FalAIError", "ValidationError"}

\* C11 witness: a request found an entry for its key in the cache, could not
\* read it, called upstream and was answered with success.
C11_Witness ==
    \E a, b \in Slots :
        /\ Repeats(b, a)
        /\ req[a].resp.success /\ ~req[a].fault /\ req[a].key \notin evicted
        /\ req[b].key = req[a].key
        /\ req[b].fault /\ upCalls[b] = 1
        /\ req[b].resp.success

\* the upload is one the route must refuse: too large, a content type outside
\* the allowed sets, or the wrong media kind for the route
Invalid(route, upload) ==
    \/ FailsValidation(upload)
    \/ route \in ImageRoutes /\ upload.content_type \notin allowed_image_types
    \/ route \in VideoRoutes /\ upload.content_type \notin allowed_video_types

\* C12: a single-file request whose upload fails validation never gets past
\* validation: no upstream call is issued for it, nothing is written to the
\* cache, and it is answered with an error; for a file of a batch that fails validation
\* or is not an image no upstream call is issued, and the batch writes
\* nothing to the cache.
C12_InvalidNeverReachesUpstream ==
    /\ \A r \in Slots :
          ( /\ req[r].pc # "idle" /\ req[r].route \in FileRoutes
            /\ Invalid(req[r].route, req[r].upload) )
          => /\ req[r].pc \in {"start", "done"}
             /\ upCalls[r] = 0
             /\ req[r].outcome = NoVal /\ req[r].key = NoKey
             /\ cache = << >>
             /\ req[r].pc = "done" => ~req[r].resp.success
    /\ batch.pc # "idle" => cache = << >>
    /\ \A i \in DOMAIN batch.tasks :
          Invalid("image_enhance", batch.files[i])
          => /\ batch.tasks[i].calls = 0
             /\ batch.tasks[i].outcome = NoVal
             /\ batch.tasks[i].pc = "done"
                  => batch.tasks[i].result.status = "failed"

\* C12 witness: a batch has been answered in which an oversized file was
\* recorded failed without an upstream call while another file was sent
\* upstream.
C12_Witness ==
    /\ batch.pc = "done"
    /\ \E i, j \in DOMAIN batch.tasks :
         /\ ContentLen(batch.files[i].content) > max_file_size
         /\ batch.tasks[i].calls = 0
         /\ batch.tasks[j].calls = 1

\* the condition under which the claim says validate_file succeeds
WithinLimits(upload) ==
    /\ ContentLen(upload.content) <= max_file_size
    /\ upload.content_type \in allowed_image_types \cup allowed_video_types

\* C13: validate_file returns exactly for the uploads of at most
\* max_file_size bytes whose declared type is allowed; content above the
\* limit is refused with the size message whatever its type; and a request
\* whose upload was refused has written no file, while an accepted upload has
\* been stored.
C13_ValidateExact ==
    \A r \in Slots :
        req[r].pc \notin {"idle", "start"} =>
            LET u == req[r].upload
                v == validate_file(u.content, u.content_type, u.filename)
            IN /\ v.r = "return" <=> WithinLimits(u)
               /\ ContentLen(u.content) > max_file_size =>
                    /\ v.r = "raise"
                    /\ Head(v.value.message) = "File size exceeds maximum limit of "
               /\ ~WithinLimits(u) =>
                    /\ files = << >>
                    /\ req[r].pc = "done" /\ req[r].file_data = NoVal
                    /\ req[r].err = HTTPException(400, v.value.message)
               /\ WithinLimits(u) => files # << >>

\* C13 witness: an upload of exactly max_file_size bytes was accepted and
\* stored.
C13_Witness ==
    \E r \in Slots :
        /\ req[r].pc = "validated"
        /\ ContentLen(req[r].upload.content) = max_file_size
        /\ <<"images", req[r].file_data.filename>> \in DOMAIN files

\* C14 (as claimed): an exception rendered by the central handler is a 500
\* internal_error; its message is the exception text in development, and in
\* staging and production it is the generic text.
C14_TextOnlyInDevelopment ==
    central.exc # NoVal =>
        /\ central.resp.status_code = 500
        /\ central.resp.error_code = "internal_error"
        /\ central.environment = "development"
             => central.resp.message = StrOfException(central.exc)
        /\ central.environment # "development"
             => central.resp.message = GenericText

\* the provider answered the last poll of job j with a JSON object and a
\* status below 400
Answered(j) ==
    /\ jobs[j].outcome # NoVal
    /\ jobs[j].outcome.net = "response"
    /\ jobs[j].outcome.status < 400
    /\ jobs[j].outcome.body.json = "object"

\* C15: a poll the provider answered reports queued as pending, running as
\* processing, completed, failed and cancelled as themselves, and any other
\* provider status or a missing one as pending; the response names the job
\* id that was asked for.
C15_StatusMapping ==
    \A j \in JobIds :
        Answered(j) =>
            LET st == jobs[j].outcome.body.status
                local == jobs[j].last
            IN /\ jobs[j].resp.job_status = local
               /\ jobs[j].resp.message[2] = j
               /\ st = Some("queued") => local = "pending"
               /\ st = Some("running") => local = "processing"
               /\ st \in {Some(s) : s \in TerminalStatuses} => local = st.v
               /\ st \notin {Some(s) : s \in TerminalStatuses \cup
                                              {"queued", "running"}}
                    => local = "pending"

\* C15 witness: a poll answered with a status the mapping does not know was
\* reported pending, and another job's poll answered running was reported
\* processing.
C15_Witness ==
    \E j, k \in JobIds :
        /\ Answered(j) /\ jobs[j].outcome.body.status = Some("archived")
        /\ jobs[j].last = "pending"
        /\ Answered(k) /\ jobs[k].outcome.body.status = Some("running")
        /\ jobs[k].last = "processing"

\* C16 (as claimed): a response of the job-status route that carries a
\* result URL reports the status completed.
C16_UrlOnlyWhenCompleted ==
    \A j \in JobIds :
        ( /\ jobs[j].resp # NoVal /\ jobs[j].resp.success
          /\ jobs[j].resp.url # NoVal )
        => jobs[j].resp.job_status = "completed"

\* C17: a request is rejected exactly when it presents no credential or one
\* outside the store of active keys; a rejected request is answered 401
\* authentication_error, and its route never starts: no file is stored, no
\* cache entry is read or written and no upstream call is issued; a route
\* that runs has passed the check.
C17_RejectedBeforeAnyWork ==
    \A r \in Slots :
        LET a == auth.req[r]
        IN /\ a.pc # "idle" =>
                ( a.pc = "rejected" <=>
                    ( a.credentials = NoVal \/ a.credentials.v \notin auth.keys ) )
           /\ a.pc = "rejected" =>
                /\ a.resp.status_code = 401
                /\ a.resp.error_code = "authentication_error"
                /\ req[r].pc = "idle" /\ req[r].key = NoKey
                /\ upCalls[r] = 0
                /\ files = << >> /\ cache = << >>
           /\ req[r].pc # "idle" => a.pc = "passed"

\* C17 witness: a request presenting a key the store does not hold has been
\* answered 401 by a process whose store holds another key.
C17_Witness ==
    /\ auth.keys # {}
    /\ \E r \in Slots :
         /\ auth.req[r].pc = "rejected"
         /\ auth.req[r].credentials # NoVal
         /\ auth.req[r].resp.status_code = 401

\* C18 (as claimed): two delete_file calls on a file that exists, with
\* os.remove working and no write in between: the first returns true and
\* removes the file, the second returns false without raising, and storage
\* after the second call is storage after the first.
C18_DeleteIdempotent ==
    ( /\ Len(del.calls) >= 2
      /\ del.path \in DOMAIN del.before
      /\ ~del.calls[1].fault /\ ~del.calls[2].fault )
    => /\ del.calls[1].result.r = "return"
       /\ del.calls[1].result.value = TRUE
       /\ del.path \notin DOMAIN del.calls[1].after
       /\ del.calls[2].result.r = "return"
       /\ del.calls[2].result.value = FALSE
       /\ del.calls[2].after = del.calls[1].after

\* C19: a request issues at most one upstream call: none when it was served
\* from the cache, exactly one when it missed (also when that call failed),
\* and a batch issues at most one per submitted file, exactly one for a file
\* whose upstream call failed.
C19_AtMostOnce ==
    /\ \A r \in Slots :
          /\ upCalls[r] <= 1
          /\ req[r].hit => upCalls[r] = 0
          /\ ( req[r].pc \in {"called", "done"} /\ req[r].key # NoKey
               /\ ~req[r].hit ) => upCalls[r] = 1
          /\ ( req[r].svc # NoVal /\ req[r].svc.r = "raise" ) => upCalls[r] = 1
    /\ \A i \in DOMAIN batch.tasks :
          /\ batch.tasks[i].calls <= 1
          /\ batch.tasks[i].outcome # NoVal => batch.tasks[i].calls = 1

\* C19 witness: one request was answered after its single upstream call,
\* and a repetition of it was served from the cache without any.
C19_Witness ==
    \E a, b \in Slots :
        /\ Repeats(b, a)
        /\ req[a].svc # NoVal /\ upCalls[a] = 1
        /\ req[b].hit /\ upCalls[b] = 0

\* C20: the loop ends only by cancellation, and whenever a cycle is over,
\* with a count or with an error, the task sweeps again or has been
\* cancelled.
C20_LoopSurvivesErrors ==
    /\ [](task.pc = "ended" => task.cancelled)
    /\ (task.last # "-" /\ task.pc # "sweeping")
          ~> (task.pc = "sweeping" \/ task.cancelled)

\* C20 witness: the task is sweeping again after a cycle that ended with an
\* error.
C20_Witness ==
    /\ task.last = "error"
    /\ task.pc = "sweeping"
    /\ sweep.pc = "walk"
    /\ ~task.cancelled

\* C23: no session exists before the first _get_session; a _get_session
\* returns an open session, the current one whenever that is open; no close
\* raises, and after every close, the first or a repeated one or one before
\* any session, the service has no open session.
C23_LazyReuseIdempotentClose ==
    /\ client.calls = << >> => client.session = 0 /\ client.closed = << >>
    /\ \A i \in DOMAIN client.calls :
         LET e == client.calls[i]
             before == IF i = 1 THEN CallEntry("init", "return",
                                               [session |-> 0, closed |-> << >>])
                       ELSE client.calls[i - 1]
         IN  /\ e.r = "return"
             /\ e.op = "get" =>
                  /\ e.session \in e.open
                  /\ before.session \in before.open =>
                       e.session = before.session /\ e.created = before.created
             /\ e.op = "close" =>
                  /\ e.open = {}
                  /\ e.session = before.session /\ e.created = before.created

\* C23 witness: close before any session, a session created and reused,
\* closed, and closed again.
C23_Witness ==
    /\ Len(client.calls) = 5
    /\ [i \in 1..5 |-> client.calls[i].op]
         = <<"close", "get", "get", "close", "close">>
    /\ client.calls[3].session = 1

\* C28: at most one session is open and it is the one the service
\* references; a _get_session that finds an open session creates none; a
\* _get_session after a close returns a session that is new and open.
C28_OneOpenSession ==
    /\ Cardinality(OpenSessions(client)) <= 1
    /\ OpenSessions(client) \subseteq {client.session}
    /\ \A i \in DOMAIN client.calls :
         i > 1 /\ client.calls[i].op = "get" =>
           LET e == client.calls[i]
               before == client.calls[i - 1]
           IN  /\ before.open # {} => e.created = before.created
               /\ before.op = "close" =>
                    /\ e.session = before.created + 1
                    /\ e.created = before.created + 1
                    /\ e.open = {e.session}

\* C28 witness: a session opened, closed, and a second one opened by the next
\* _get_session.
C28_Witness ==
    /\ Len(client.calls) = 3
    /\ [i \in 1..3 |-> client.calls[i].op] = <<"get", "close", "get">>
    /\ client.session = 2
    /\ client.closed = <<TRUE, FALSE>>

\* C21: when lifespan reports the shutdown complete, the sweeper task has
\* terminated and is not sweeping.
C21_StoppedWhenComplete ==
    life.pc = "complete" => task.pc = "ended"

\* C22 (as claimed): a request that repeats an answered one whose result was
\* stored, while the entry has not expired, reads the entry.
C22_ReadWheneverLive ==
    \A a, b \in Slots :
        ( /\ Repeats(b, a)
          /\ req[a].svc # NoVal /\ req[a].svc.r = "return" /\ ~req[a].fault
          /\ req[b].key = req[a].key
          /\ req[a].key \notin evicted )
        => req[b].hit

\* C22 (amended): an entry is written only by a request that missed and
\* whose upstream call for that key returned; an entry disappears only by
\* expiry; a lookup that finds an entry for its key and whose read does not
\* fail is a hit and calls nothing, any other lookup is a miss; and a miss
\* that goes on invokes upstream.
C22_CacheLifecycle ==
    /\ [][\A k \in DOMAIN cache' :
            (k \notin DOMAIN cache \/ cache'[k] # cache[k]) =>
               \E r \in Slots :
                  /\ req[r].pc = "called" /\ req'[r].pc = "done"
                  /\ req[r].key = k
                  /\ req[r].svc.r = "return"
                  /\ ~req[r].hit
                  /\ upCalls[r] = 1]_vars
    /\ [][\A k \in DOMAIN cache :
            k \notin DOMAIN cache' =>
               k \in evicted' /\ req' = req /\ upCalls' = upCalls]_vars
    /\ [][\A r \in Slots :
            (req[r].pc # "idle" /\ req[r].key = NoKey /\ req'[r].key # NoKey) =>
               IF req'[r].key \in DOMAIN cache /\ ~req'[r].fault
               THEN req'[r].hit /\ req'[r].pc = "done" /\ upCalls'[r] = 0
               ELSE ~req'[r].hit /\ req'[r].pc = "miss"]_vars
    /\ [][\A r \in Slots :
            (req[r].pc = "miss" /\ req'[r].pc # "miss") =>
               upCalls'[r] = 1 /\ cache' = cache]_vars

\* C22 witness: the entry a first request stored has expired; the identical
\* next request missed, invoked upstream and stored the entry again.
C22_Witness ==
    \E a, b \in Slots :
        /\ Repeats(b, a)
        /\ req[a].svc # NoVal /\ req[a].svc.r = "return" /\ ~req[a].fault
        /\ req[b].key = req[a].key
        /\ req[a].key \in evicted
        /\ ~req[b].hit /\ ~req[b].fault
        /\ upCalls[b] = 1
        /\ req[b].key \in DOMAIN cache

\* s contains the text part at consecutive positions
Contains(s, part) ==
    \E i \in 1..(Len(s) - Len(part) + 1) :
       SubSeq(s, i, i + Len(part) - 1) = part

\* C25: the result of sanitize_filename contains no "/", no "\", no ".."
\* and no "~", is at most 255 characters long, and ends with the extension
\* of the input.
C25_SanitizedIsSafe ==
    san.called =>
       /\ \A c \in {"/", "\\", "~"} : ~Contains(san.sanitized, <<c>>)
       /\ ~Contains(san.sanitized, <<".", ".">>)
       /\ Len(san.sanitized) <= LengthLimit
       /\ LET ext == splitext(san.filename).ext
          IN /\ Len(ext) <= Len(san.sanitized)
             /\ SubSeq(san.sanitized, Len(san.sanitized) - Len(ext) + 1,
                       Len(san.sanitized)) = ext

\* C24: two uploads never get the same filename, and the file of a stored
\* upload holds that upload's content.
C24_FilenamesUnique ==
    /\ \A u, v \in Uploaders :
         (u # v /\ saves.up[u].pc # "idle" /\ saves.up[v].pc # "idle")
            => saves.up[u].filename # saves.up[v].filename
    /\ \A u \in Uploaders :
         saves.up[u].pc = "saved" => saves.disk[saves.up[u].filename] = u

\* request r carries a valid image, on an image route, whose thumbnail
\* cannot be created, and validate_and_save_upload has run
ThumbnailFailed(r) ==
    /\ req[r].pc \notin {"idle", "start"}
    /\ req[r].route \in ImageRoutes
    /\ req[r].upload.content_type \in allowed_image_types
    /\ ContentLen(req[r].upload.content) <= max_file_size
    /\ ~Decodable(req[r].upload.content)

\* C26: when the thumbnail of a valid image upload cannot be created,
\* validate_and_save_upload returns the file data without thumbnail_filename
\* and thumbnail_url, the uploaded file is on disk and no thumbnail is, and
\* the route goes on to the cache lookup and, on a miss, to the upstream call.
C26_ThumbnailFailureSwallowed ==
    \A r \in Slots :
        ThumbnailFailed(r) =>
           /\ req[r].file_data # NoVal
           /\ req[r].file_data.thumbnail_filename = NoVal
           /\ req[r].file_data.thumbnail_url = NoVal
           /\ <<req[r].file_data.subdir, req[r].file_data.filename>>
                 \in DOMAIN files
           /\ <<"thumbnails", req[r].file_data.filename>> \notin DOMAIN files
           /\ req[r].pc \in {"miss", "called", "done"} => req[r].key # NoKey
           /\ req[r].pc \in {"called", "done"} =>
                 \/ req[r].hit /\ upCalls[r] = 0
                 \/ ~req[r].hit /\ upCalls[r] = 1

\* C26 witness: a request whose thumbnail could not be created missed the
\* cache, called upstream and was answered with success.
C26_Witness ==
    \E r \in Slots :
        /\ ThumbnailFailed(r)
        /\ req[r].pc = "done"
        /\ ~req[r].hit /\ upCalls[r] = 1
        /\ req[r].resp.success

\* file i of the batch gets as far as the upstream call: a valid image, an
\* operation the batch route knows and parameters the request model accepts
ReachesUpstream(i) ==
    /\ ~FailsValidation(batch.files[i])
    /\ batch.files[i].content_type \in allowed_image_types
    /\ batch.operation \in {"enhance", "style_transfer"}
    /\ batch.parameters_ok

C29_NoPerKeyLock ==
    /\ [](\A r \in Slots :
            upCalls[r] = IF req[r].pc \in {"called", "done"}
                            /\ req[r].key # NoKey /\ ~req[r].hit
                            /\ req[r].svc # NoVal
                         THEN 1 ELSE 0)
    /\ [][\A r \in Slots :
            (req[r].pc # "idle" /\ req[r].key = NoKey /\ req'[r].key # NoKey
               /\ req'[r].key \notin DOMAIN cache)
              => req'[r].pc = "miss"]_vars
    /\ [][\A r \in Slots :
            (req[r].pc = "called" /\ req'[r].pc = "done" /\ ~req'[r].fault)
              => /\ req[r].key \in DOMAIN cache'
                 /\ cache'[req[r].key].data = CachedValue(req[r].svc.value)]_vars

\* C29 witness: two requests with one key both missed with a working cache
\* that lost no entry, both called upstream, both stored, and the entry
\* holds the result of one of them where the other had stored its own.
C29_Witness ==
    \E a, b \in Slots :
        /\ a # b
        /\ req[a].pc = "done" /\ req[b].pc = "done"
        /\ req[a].key = req[b].key /\ req[a].key # NoKey
        /\ ~req[a].hit /\ ~req[b].hit
        /\ ~req[a].fault /\ ~req[b].fault
        /\ evicted = {}
        /\ upCalls[a] = 1 /\ upCalls[b] = 1
        /\ req[a].svc.r = "return" /\ req[b].svc.r = "return"
        /\ CachedValue(req[a].svc.value) # CachedValue(req[b].svc.value)
        /\ cache[req[a].key].data = CachedValue(req[b].svc.value)

\* the upstream call of request r returned a result without a URL and the
\* route has finished
NoUrlResult(r) ==
    /\ req[r].pc = "done"
    /\ req[r].svc # NoVal /\ req[r].svc.r = "return"
    /\ req[r].svc.value.result_url = NoVal

\* C30: a request whose upstream call returned a result without a URL is
\* answered with the error status 500, and, unless the write to the cache
\* failed or the entry has expired since, the cache holds an entry for its
\* key.
C30_ErrorLeavesEntry ==
    \A r \in Slots :
        NoUrlResult(r) =>
           /\ ~req[r].resp.success
           /\ req[r].resp.status_code = 500
           /\ (~req[r].fault /\ req[r].key \notin evicted)
                 => req[r].key \in DOMAIN cache

\* C30 witness: the only request so far ended with status 500 and the cache,
\* empty before, holds the entry it stored.
C30_Witness ==
    /\ req["r2"].pc = "idle"
    /\ NoUrlResult("r1")
    /\ req["r1"].resp.status_code = 500
    /\ evicted = {}
    /\ DOMAIN cache = {req["r1"].key}
    /\ cache[req["r1"].key].data = CachedValue(req["r1"].svc.value)

====
